---- MODULE Spec2Model ----
(***************************************************************************)
(* HubCore: the action-dispatch and routing pipeline of a Hub              *)
(* (BaseHub.handle_action, HubRouter), the skill-exposure model            *)
(* (SkillExposure) and the consent bookkeeping the dispatcher touches.     *)
(*                                                                         *)
(* Representation of Python values                                         *)
(*   - a scalar is a string holding its literal: "True", "False", "None",  *)
(*     "" (the empty string) or any other text;                            *)
(*   - a dict of scalars is a function from a finite set of keys;          *)
(*   - a list is a sequence;                                               *)
(*   - a JSON object that may carry an "artifacts" list is a record        *)
(*     [fields, hasArtifacts, artifacts] (fields = its scalar entries);    *)
(*   - a dotted text such as "tracker.check_pending" is the sequence of    *)
(*     its segments <<"tracker", "check_pending">>: "." occurs in the text *)
(*     iff the sequence has more than one segment; None is <<>>.           *)
(***************************************************************************)
EXTENDS Integers, Sequences, FiniteSets, TLC

VARIABLES
    hub,                  \* the BaseHub subclass: what its abstract methods return
    initialized,          \* BaseHub.initialized
    hub_config,           \* BaseHub.config: the HubConfig, once loaded
    agents,               \* BaseHub.agents / HubRouter.agents: name -> AgentConnection
    actions,              \* BaseHub.actions / HubRouter.actions: list of HubAction
    consents,             \* ConsentManager._consents: user_id -> record
    sessions,             \* AuthManager._sessions: token -> record
    pending_links,        \* AuthManager._pending_links: token -> record
    now,                  \* datetime.now()
    op,                   \* the operation the in-flight request runs
    pc,                   \* where that request is suspended
    args,                 \* its arguments and the action it resolved
    calls,                \* the network sends it made, each with its response
    hooks,                \* the lifecycle hooks it invoked, in order
    precondition_result,  \* handle_action's local precondition_result
    outcome,              \* what the operation returned or raised
    probe,                \* a SkillExposure under query and the answers given
    auth_config,          \* AuthManager.config
    consent_config,       \* ConsentManager.config
    minted,               \* how many tokens secrets.token_urlsafe has produced
    verified,             \* history: <<link token, session token>> of every
                          \* verification that succeeded
    last_call             \* the latest manager call and what it returned

vars == <<hub, initialized, hub_config, agents, actions, consents, sessions, pending_links,
          now, op, pc, args, calls, hooks, precondition_result, outcome, probe,
          auth_config, consent_config, minted, verified, last_call>>

hubVars == <<hub, initialized, hub_config, agents, actions>>
storeVars == <<consents, sessions, pending_links, now>>
taskVars == <<op, pc, args, calls, hooks, precondition_result, outcome>>
managerVars == <<auth_config, consent_config, minted, verified, last_call>>

-----------------------------------------------------------------------------
(* Python dicts and lists *)

EmptyDict == [k \in {} |-> "None"]

\* d.get(k, default)
Get(d, k, default) == IF k \in DOMAIN d THEN d[k] ELSE default

\* {**a, **b}: the entries of b win
Merge(a, b) ==
    [k \in (DOMAIN a) \cup (DOMAIN b) |-> IF k \in DOMAIN b THEN b[k] ELSE a[k]]

\* x in l, for a list l
InList(x, l) == \E i \in 1..Len(l) : l[i] = x

\* bool(v) of a scalar
Truthy(v) == v \notin {"False", "None", ""}

\* a JSON object with scalar entries only
Flat(d) == [fields |-> d, hasArtifacts |-> FALSE, artifacts |-> <<>>]

NoObject == Flat(EmptyDict)

-----------------------------------------------------------------------------
(* config.py *)

SkillExposure(exposed, hidden, internal) ==
    [exposed |-> exposed, hidden |-> hidden, internal |-> internal]

DefaultSkillExposure == SkillExposure(<<>>, <<>>, <<>>)

is_user_callable_exposed_or_internal(self, skill_id) ==
    InList(skill_id, self.exposed) \/ InList(skill_id, self.internal)

is_user_callable(self, skill_id) == InList(skill_id, self.exposed)

is_hub_callable_unless_hidden(self, skill_id) ==
    (InList(skill_id, self.exposed) \/ InList(skill_id, self.internal))
        /\ ~InList(skill_id, self.hidden)

is_hub_callable(self, skill_id) ==
    InList(skill_id, self.exposed) \/ InList(skill_id, self.internal)

HubAction(id, agent, skill, precondition) ==
    [id |-> id, agent |-> agent, skill |-> skill, precondition |-> precondition]

NoAction == HubAction("", "", "", <<>>)

AgentConnection(name, url, skill_exposure) ==
    [name |-> name, url |-> url, skill_exposure |-> skill_exposure]

-----------------------------------------------------------------------------
(* What an operation returned or raised *)

NoOutcome == [kind |-> "none", exc |-> "", msg |-> "", value |-> NoObject]

Return(value) == [kind |-> "return", exc |-> "", msg |-> "", value |-> value]

Raise(exc, msg) == [kind |-> "raise", exc |-> exc, msg |-> msg, value |-> NoObject]

-----------------------------------------------------------------------------
(* The agents' side of the wire: what an HTTP POST to an agent can yield.   *)
(* status "ok" is a 2xx answer whose body parsed as a JSON object: the      *)
(* object has a "result" entry (hasResult), an "error" entry (hasError),    *)
(* both or neither; rest is the object when it has neither.                 *)

Part(kind, hasData, data) == [kind |-> kind, hasData |-> hasData, data |-> data]

Artifact(hasParts, parts) == [hasParts |-> hasParts, parts |-> parts]

WithArtifacts(fields, artifacts) ==
    [fields |-> fields, hasArtifacts |-> TRUE, artifacts |-> artifacts]

Failure(status) ==
    [status |-> status, hasResult |-> FALSE, result |-> NoObject,
     hasError |-> FALSE, error |-> "", rest |-> NoObject]

ResultResponse(result) ==
    [status |-> "ok", hasResult |-> TRUE, result |-> result,
     hasError |-> FALSE, error |-> "", rest |-> NoObject]

ErrorResponse(error) ==
    [status |-> "ok", hasResult |-> FALSE, result |-> NoObject,
     hasError |-> TRUE, error |-> error, rest |-> NoObject]

ResultAndErrorResponse(result, error) ==
    [status |-> "ok", hasResult |-> TRUE, result |-> result,
     hasError |-> TRUE, error |-> error, rest |-> NoObject]

BareResponse(rest) ==
    [status |-> "ok", hasResult |-> FALSE, result |-> NoObject,
     hasError |-> FALSE, error |-> "", rest |-> rest]

NoResponse == Failure("pending")

\* a result whose first artifact carries the payload in a data part
DataResult(payload) ==
    WithArtifacts(EmptyDict, <<Artifact(TRUE, <<Part("data", TRUE, payload)>>)>>)

FailureStatuses == {"network_error", "http_error", "invalid_json"}

Responses ==
    { Failure(s) : s \in FailureStatuses }
    \cup
    { ErrorResponse("boom"),
      ResultAndErrorResponse(DataResult([result |-> "ok"]), "boom"),
      ResultResponse(DataResult([result |-> "ok"])),
      ResultResponse(DataResult([has_pending |-> "True"])),
      ResultResponse(DataResult([has_pending |-> "False", message |-> "nothing pending"])),
      ResultResponse(DataResult([satisfied |-> "True"])),
      ResultResponse(DataResult([satisfied |-> "False", message |-> "blocked",
                                 action_required |-> "enroll"])),
      ResultResponse(DataResult([score |-> "7"])),
      ResultResponse(Flat([result |-> "ok"])),
      ResultResponse(WithArtifacts([state |-> "completed"], <<>>)),
      ResultResponse(WithArtifacts([state |-> "completed"],
          <<Artifact(TRUE, <<Part("text", FALSE, EmptyDict)>>),
            Artifact(TRUE, <<Part("data", TRUE, [result |-> "late"])>>)>>)),
      ResultResponse(WithArtifacts(EmptyDict,
          <<Artifact(TRUE, <<Part("data", TRUE, [result |-> "first"])>>),
            Artifact(TRUE, <<Part("data", TRUE, [result |-> "late"])>>)>>)),
      ResultResponse(WithArtifacts(EmptyDict,
          <<Artifact(TRUE, <<Part("text", FALSE, EmptyDict),
                             Part("data", TRUE, [satisfied |-> "True"]),
                             Part("data", TRUE, [satisfied |-> "False"])>>)>>)),
      BareResponse(Flat([satisfied |-> "True", message |-> "fine"])) }

-----------------------------------------------------------------------------
(* router.py: envelope and response handling *)

\* the message-id is a fresh uuid4 that no decision depends on; the model
\* keeps the data part of the envelope: the skill and the parameter bag
build_a2a_message(skill_id, user_id, params) ==
    [skill |-> skill_id, parameters |-> Merge([user_id |-> user_id], params)]

extract_result_last_artifact(result) ==
    IF result.hasArtifacts /\ Len(result.artifacts) > 0
    THEN LET last == result.artifacts[Len(result.artifacts)]
             parts == IF last.hasParts THEN last.parts ELSE <<>>
             dataParts == {i \in 1..Len(parts) : parts[i].kind = "data"}
         IN  IF dataParts # {}
             THEN LET i == CHOOSE j \in dataParts : \A k \in dataParts : j <= k
                  IN  IF parts[i].hasData THEN Flat(parts[i].data) ELSE NoObject
             ELSE result
    ELSE result

extract_result(result) ==
    IF result.hasArtifacts /\ Len(result.artifacts) > 0
    THEN LET first == result.artifacts[1]
             parts == IF first.hasParts THEN first.parts ELSE <<>>
             dataParts == {i \in 1..Len(parts) : parts[i].kind = "data"}
         IN  IF dataParts # {}
             THEN LET i == CHOOSE j \in dataParts : \A k \in dataParts : j <= k
                  IN  IF parts[i].hasData THEN Flat(parts[i].data) ELSE NoObject
             ELSE result
    ELSE result

\* the part of _send_to_agent after the POST: what the caller gets
send_to_agent_swallow(response) ==
    IF response.status = "ok" /\ response.hasResult
    THEN Return(extract_result(response.result))
    ELSE Return(NoObject)

send_to_agent(response) ==
    IF response.status \in {"network_error", "http_error"}
    THEN Raise("HTTPError", response.status)
    ELSE IF response.status = "invalid_json"
    THEN Raise("JSONDecodeError", response.status)
    ELSE IF response.hasResult THEN Return(extract_result(response.result))
    ELSE IF response.hasError THEN Raise("Exception", "Agent error")
    ELSE Return(response.rest)

\* check_precondition, lines 99-104
DefaultPreconditionAgent == "le_veilleur"

precondition_agent(precondition_skill) ==
    IF Len(precondition_skill) > 1
    THEN precondition_skill[1]
    ELSE DefaultPreconditionAgent

precondition_skill_name(precondition_skill) ==
    IF Len(precondition_skill) > 1
    THEN Tail(precondition_skill)
    ELSE precondition_skill

\* check_precondition, line 109
precondition_agent_missing_closed == Flat([satisfied |-> "False"])

precondition_agent_missing == Flat([satisfied |-> "True"])

\* check_precondition, lines 112-115
check_params(user_id, params) == Merge([student_id |-> user_id], params)

\* check_precondition, lines 119-135: what it returns for what the send gave
precondition_outcome_raising(sent) ==
    IF sent.kind = "raise"
    THEN sent
    ELSE Return(sent.value)

precondition_outcome(sent) ==
    IF sent.kind = "raise"
    THEN Return(Flat([satisfied |-> "False", message |-> sent.msg]))
    ELSE IF "has_pending" \in DOMAIN sent.value.fields
    THEN Return(Flat(
            [satisfied |-> Get(sent.value.fields, "has_pending", "False"),
             message |-> Get(sent.value.fields, "message", "No pending worksheet found"),
             action_required |->
                 IF ~Truthy(Get(sent.value.fields, "has_pending", "None"))
                 THEN "generate_worksheet" ELSE "None"]))
    ELSE Return(sent.value)

-----------------------------------------------------------------------------
(* Hubs: what a BaseHub subclass declares.  TutorHub follows the test hub   *)
(* and the tutor/tracker scenario (le_veilleur, the default precondition   *)
(* agent, is not registered).  PracticeHub has the training hub's gaston    *)
(* and le_veilleur, and an action served by le_veilleur whose precondition  *)
(* is checked by le_veilleur too.                                           *)

\* config.py, HubConfig: the name and the two behaviour switches
HubConfig(name, auth_required, consent_required) ==
    [name |-> name, auth_required |-> auth_required,
     consent_required |-> consent_required]

\* BaseHub.config before initialize
NoConfig == HubConfig("None", FALSE, FALSE)

TutorHub ==
    [config |-> HubConfig("Tutor Hub", TRUE, TRUE),
     agent_urls |-> [tutor |-> "http://tutor", tracker |-> "http://tracker"],
     skill_exposures |->
        [tutor |-> SkillExposure(<<"grade", "hint">>, <<"secret", "hint">>,
                                 <<"provision">>)],
     ui_actions |->
        << HubAction("A1", "tutor", "grade", <<>>),
           HubAction("A2", "tutor", "hint", <<"tracker", "check_pending">>),
           HubAction("A3", "tutor", "secret", <<"tracker", "check_pending">>),
           HubAction("A4", "tutor", "provision", <<>>),
           HubAction("A5", "ghost", "grade", <<>>),
           HubAction("A6", "tutor", "grade", <<"check_pending">>),
           HubAction("A7", "tutor", "unlisted", <<>>) >>]

PracticeHub ==
    [config |-> HubConfig("Practice Hub", TRUE, TRUE),
     agent_urls |-> [gaston |-> "http://gaston", le_veilleur |-> "http://le_veilleur"],
     skill_exposures |->
        [gaston |-> SkillExposure(<<"request_worksheet">>, <<>>, <<"chatbot">>),
         le_veilleur |-> SkillExposure(<<"get_progress">>, <<>>,
                                       <<"check_pending", "create_profile">>)],
     ui_actions |->
        << HubAction("A1", "gaston", "request_worksheet",
                     <<"le_veilleur", "check_pending">>),
           HubAction("A2", "le_veilleur", "get_progress", <<"check_pending">>),
           HubAction("A3", "gaston", "request_worksheet", <<"">>),
           HubAction("A4", "gaston", "chatbot", <<>>) >>]

HubDefs == {TutorHub, PracticeHub}

Users == {"u1", "u2"}

ActionIds == {"A1", "A2", "A3", "A4", "A5", "A6", "A7", "A9"}

ParamChoices ==
    { EmptyDict,
      [user_id |-> "u2"],
      [student_id |-> "u2", topic |-> "limits"] }

PreconditionRefs ==
    { <<"tracker", "check_pending">>,
      <<"check_pending">>,
      <<"ghost", "check_pending">>,
      <<"tutor", "secret", "v2">>,
      <<"tutor", "grade">>,
      <<"tutor", "secret">>,
      <<"tutor", "provision">> }

HookBehaviours == {"ok", "raise"}

\* the agents and skills hub logic asks call_agent_skill for: a registered and
\* an unregistered agent of each hub; exposed, hidden, internal and unlisted
\* skills
AgentNames == {"tutor", "le_veilleur", "ghost"}

CalledSkills == {"grade", "secret", "provision", "create_profile", "unlisted"}

-----------------------------------------------------------------------------
(* The in-flight request *)

NoArgs ==
    [action_id |-> "", action |-> NoAction, user_id |-> "", params |-> EmptyDict,
     precondition_skill |-> <<>>]

Call(via, url, message) ==
    [via |-> via, url |-> url, message |-> message, response |-> NoResponse]

\* one invocation of a lifecycle hook: its arguments (argument is the params
\* of on_action_start and the result of on_action_complete), whether it
\* raised, and how many sends the request had made, and how many of them had
\* been answered, when the hook was invoked (sent is the call log then)
HookCall(name, action_id, user_id, behaviour, argument, sent) ==
    [name |-> name, action_id |-> action_id, user_id |-> user_id,
     raised |-> (behaviour = "raise"), argument |-> argument,
     calls_made |-> Len(sent),
     calls_answered |-> Cardinality({i \in 1..Len(sent) :
                                       sent[i].response # NoResponse})]

Answered(response) == [calls EXCEPT ![Len(calls)].response = response]

-----------------------------------------------------------------------------
(* config.py: AuthConfig and ConsentConfig; the managers as constructed *)

\* email_domain is "None" when no restriction is configured
AuthConfig(email_domain, session_duration_hours) ==
    [email_domain |-> email_domain,
     session_duration_hours |-> session_duration_hours]

DefaultSessionHours == 24

\* BaseHub.configure_auth
DefaultAuthConfig == AuthConfig("None", DefaultSessionHours)

ConsentConfig(required, revocable) ==
    [required |-> required, revocable |-> revocable]

\* BaseHub.configure_consent
DefaultConsentConfig == ConsentConfig(TRUE, TRUE)

\* what a manager method returned; a method that returns a bool or None has
\* it in success as "True", "False" or "None"
NoReply ==
    [success |-> "None", error |-> "", detail |-> "", token |-> 0,
     user_id |-> "", email |-> <<>>, expires |-> -1, timestamp |-> -1,
     users |-> {}, records |-> <<>>]

NoCall ==
    [op |-> "none", token |-> 0, email |-> <<>>, user_id |-> "",
     result |-> NoReply]

\* AuthManager.__init__ and ConsentManager.__init__: nothing minted, nothing
\* verified, nothing called
ManagersConstructed ==
    /\ minted = 0
    /\ verified = {}
    /\ last_call = NoCall

-----------------------------------------------------------------------------
(* base_hub.py *)

\* BaseHub.__init__; no SkillExposure is under query
Constructed ==
    /\ initialized = FALSE
    /\ hub_config = NoConfig
    /\ agents = EmptyDict
    /\ actions = <<>>
    /\ consents = EmptyDict
    /\ sessions = EmptyDict
    /\ pending_links = EmptyDict
    /\ now = 0
    /\ op = "none"
    /\ pc = "idle"
    /\ args = NoArgs
    /\ calls = <<>>
    /\ hooks = <<>>
    /\ precondition_result = NoObject
    /\ outcome = NoOutcome

NoProbe ==
    [exposure |-> DefaultSkillExposure, skill_id |-> "", asked |-> TRUE,
     user_callable |-> FALSE, hub_callable |-> FALSE]

Init ==
    /\ hub \in HubDefs
    /\ Constructed
    /\ probe = NoProbe
    /\ ManagersConstructed
    /\ auth_config = DefaultAuthConfig
    /\ consent_config = DefaultConsentConfig

Initialize ==
    /\ ~initialized
    /\ agents' = [name \in DOMAIN hub.agent_urls |->
                    AgentConnection(name, hub.agent_urls[name],
                        Get(hub.skill_exposures, name, DefaultSkillExposure))]
    /\ hub_config' = hub.config
    /\ actions' = hub.ui_actions
    /\ consents' = EmptyDict
    /\ sessions' = EmptyDict
    /\ pending_links' = EmptyDict
    /\ initialized' = TRUE
    /\ UNCHANGED <<hub, now, probe>>
    /\ UNCHANGED managerVars
    /\ UNCHANGED taskVars

\* _get_action: the first action of the list with that id
get_action(action_id) ==
    IF \E i \in 1..Len(actions) : actions[i].id = action_id
    THEN actions[CHOOSE i \in 1..Len(actions) :
                    /\ actions[i].id = action_id
                    /\ \A j \in 1..Len(actions) : actions[j].id = action_id => i <= j]
    ELSE NoAction

\* route_action, lines 55-63: the error it raises before any send, if any
route_action_check_agent_only(action) ==
    IF action.agent \notin DOMAIN agents
    THEN Raise("ValueError", "Agent not found")
    ELSE NoOutcome

route_action_check(action) ==
    IF action.agent \notin DOMAIN agents
    THEN Raise("ValueError", "Agent not found")
    ELSE IF ~is_hub_callable(agents[action.agent].skill_exposure, action.skill)
    THEN Raise("PermissionError", "Skill is not available for agent")
    ELSE NoOutcome

\* fastapi's HTTPException(status_code, detail)
HTTPException(status_code, detail) ==
    [kind |-> "raise", exc |-> "HTTPException", msg |-> detail,
     value |-> Flat([status_code |-> status_code])]

\* the exceptions that are ValueErrors: json.JSONDecodeError is a subclass
ValueErrors == {"ValueError", "JSONDecodeError"}

\* what the caller of the operation entry gets when the pipeline ends with
\* result: the hub's own callers get it as it is; execute_action
\* (hub_handler.py, lines 204-217) turns handle_action's exceptions into
\* HTTP errors
respond(entry, result) ==
    IF entry # "execute_action" \/ result.kind # "raise"
    THEN result
    ELSE IF result.exc \in ValueErrors
    THEN HTTPException("400", result.msg)
    ELSE IF result.exc = "PermissionError"
    THEN HTTPException("403", result.msg)
    ELSE HTTPException("500", "Action failed")

\* route_action up to its await: raise, or build the envelope and send it
\* (sent is the list of the sends the request has made so far, entry the
\* operation the request entered by)
StartRoute(entry, sent, action, user_id, params) ==
    LET check == route_action_check(action) IN
    IF check.kind = "raise"
    THEN /\ pc' = "done"
         /\ outcome' = respond(entry, check)
         /\ calls' = sent
    ELSE /\ pc' = "await_route"
         /\ outcome' = NoOutcome
         /\ calls' = Append(sent,
                Call("route_action", agents[action.agent].url,
                     build_a2a_message(<<action.skill>>, user_id, params)))

\* handle_action, lines 304-309
precondition_failed(result) ==
    Flat([status |-> "precondition_failed",
          message |-> Get(result.fields, "message", "Precondition not met"),
          action_required |-> Get(result.fields, "action_required", "None")])

\* handle_action, line 304
precondition_satisfied_by_default(result) ==
    Truthy(Get(result.fields, "satisfied", "True"))

precondition_satisfied(result) ==
    Truthy(Get(result.fields, "satisfied", "False"))

\* handle_action, lines 304-312, once the precondition result is known
AfterPrecondition(entry, sent, action, user_id, params, result) ==
    IF ~precondition_satisfied(result)
    THEN /\ pc' = "done"
         /\ outcome' = Return(precondition_failed(result))
         /\ calls' = sent
    ELSE StartRoute(entry, sent, action, user_id, params)

\* handle_action, lines 280-294: the rejection, if any
handle_action_check_lookup_first(action_id, action) ==
    IF action = NoAction
    THEN Raise("ValueError", "Unknown action")
    ELSE IF ~initialized
    THEN Raise("RuntimeError", "Hub not initialized")
    ELSE IF action.agent \notin DOMAIN agents
    THEN Raise("ValueError", "Unknown agent")
    ELSE IF ~is_user_callable(agents[action.agent].skill_exposure, action.skill)
    THEN Raise("PermissionError", "Skill is not available in this hub")
    ELSE NoOutcome

handle_action_check(action_id, action) ==
    IF ~initialized
    THEN Raise("RuntimeError", "Hub not initialized")
    ELSE IF action = NoAction
    THEN Raise("ValueError", "Unknown action")
    ELSE IF action.agent \notin DOMAIN agents
    THEN Raise("ValueError", "Unknown agent")
    ELSE IF ~is_user_callable(agents[action.agent].skill_exposure, action.skill)
    THEN Raise("PermissionError", "Skill is not available in this hub")
    ELSE NoOutcome

\* if action.precondition:
has_precondition(action) ==
    action.precondition # <<>> /\ action.precondition # <<"">>

\* handle_action from its entry to its first await on the network (or its
\* end), for a request that entered by the operation entry
EnterHandleAction(entry, action_id, user_id, params, start_hook) ==
    /\ op' = entry
    /\ LET action == IF initialized THEN get_action(action_id) ELSE NoAction
           check == handle_action_check(action_id, action)
       IN
       /\ args' = [action_id |-> action_id, action |-> action, user_id |-> user_id,
                   params |-> params, precondition_skill |-> action.precondition]
       /\ IF check.kind = "raise"
          THEN /\ pc' = "done"
               /\ outcome' = respond(entry, check)
               /\ UNCHANGED <<calls, hooks, precondition_result>>
          ELSE /\ hooks' = Append(hooks,
                      HookCall("on_action_start", action_id, user_id, start_hook,
                               Flat(params), calls))
               /\ IF start_hook = "raise"
                  THEN /\ pc' = "done"
                       /\ outcome' = respond(entry, Raise("HookError", "on_action_start"))
                       /\ UNCHANGED <<calls, precondition_result>>
                  ELSE IF ~has_precondition(action)
                  THEN /\ StartRoute(entry, calls, action, user_id, params)
                       /\ UNCHANGED precondition_result
                  ELSE IF precondition_agent(action.precondition) \notin DOMAIN agents
                  THEN /\ precondition_result' = precondition_agent_missing
                       /\ AfterPrecondition(entry, calls, action, user_id, params,
                                            precondition_agent_missing)
                  ELSE /\ pc' = "await_precondition"
                       /\ outcome' = NoOutcome
                       /\ calls' = Append(calls,
                              Call("check_precondition",
                                   agents[precondition_agent(action.precondition)].url,
                                   build_a2a_message(
                                       precondition_skill_name(action.precondition),
                                       user_id, check_params(user_id, params))))
                       /\ UNCHANGED precondition_result
    /\ UNCHANGED hubVars
    /\ UNCHANGED probe

\* BaseHub.handle_action, called by hub logic
HandleAction(action_id, user_id, params, start_hook) ==
    /\ op = "none"
    /\ EnterHandleAction("handle_action", action_id, user_id, params, start_hook)
    /\ UNCHANGED storeVars
    /\ UNCHANGED managerVars

-----------------------------------------------------------------------------
(* router.py: the operations, called directly by hub logic *)

\* route_action from its entry to its await on the network (or its end)
RouteAction(action, user_id, params) ==
    /\ op = "none"
    /\ initialized
    /\ op' = "route_action"
    /\ args' = [action_id |-> action.id, action |-> action, user_id |-> user_id,
                params |-> params, precondition_skill |-> <<>>]
    /\ StartRoute("route_action", calls, action, user_id, params)
    /\ UNCHANGED <<hooks, precondition_result>>
    /\ UNCHANGED hubVars
    /\ UNCHANGED storeVars
    /\ UNCHANGED probe
    /\ UNCHANGED managerVars

CheckPreconditionIfCallable(precondition_skill, user_id, params) ==
    /\ op = "none"
    /\ initialized
    /\ op' = "check_precondition"
    /\ args' = [action_id |-> "", action |-> NoAction, user_id |-> user_id,
                params |-> params, precondition_skill |-> precondition_skill]
    /\ IF precondition_agent(precondition_skill) \notin DOMAIN agents
       THEN /\ pc' = "done"
            /\ outcome' = Return(precondition_agent_missing)
            /\ calls' = calls
       ELSE IF \/ Len(precondition_skill_name(precondition_skill)) # 1
               \/ ~is_hub_callable(
                      agents[precondition_agent(precondition_skill)].skill_exposure,
                      precondition_skill_name(precondition_skill)[1])
       THEN /\ pc' = "done"
            /\ outcome' = Raise("PermissionError", "Skill is not available")
            /\ calls' = calls
       ELSE /\ pc' = "await_precondition"
            /\ outcome' = NoOutcome
            /\ calls' = Append(calls,
                   Call("check_precondition",
                        agents[precondition_agent(precondition_skill)].url,
                        build_a2a_message(precondition_skill_name(precondition_skill),
                                          user_id, check_params(user_id, params))))
    /\ UNCHANGED <<hooks, precondition_result>>
    /\ UNCHANGED hubVars
    /\ UNCHANGED storeVars
    /\ UNCHANGED probe
    /\ UNCHANGED managerVars

\* check_precondition from its entry to its await on the network (or its end)
CheckPrecondition(precondition_skill, user_id, params) ==
    /\ op = "none"
    /\ initialized
    /\ op' = "check_precondition"
    /\ args' = [action_id |-> "", action |-> NoAction, user_id |-> user_id,
                params |-> params, precondition_skill |-> precondition_skill]
    /\ IF precondition_agent(precondition_skill) \notin DOMAIN agents
       THEN /\ pc' = "done"
            /\ outcome' = Return(precondition_agent_missing)
            /\ calls' = calls
       ELSE /\ pc' = "await_precondition"
            /\ outcome' = NoOutcome
            /\ calls' = Append(calls,
                   Call("check_precondition",
                        agents[precondition_agent(precondition_skill)].url,
                        build_a2a_message(precondition_skill_name(precondition_skill),
                                          user_id, check_params(user_id, params))))
    /\ UNCHANGED <<hooks, precondition_result>>
    /\ UNCHANGED hubVars
    /\ UNCHANGED storeVars
    /\ UNCHANGED probe
    /\ UNCHANGED managerVars

PreconditionResponseRechecking(response) ==
    /\ pc = "await_precondition"
    /\ LET checked == precondition_outcome(send_to_agent(response)) IN
       IF op = "check_precondition" \/ checked.kind = "raise"
       THEN /\ pc' = "done"
            /\ outcome' = respond(op, checked)
            /\ calls' = Answered(response)
            /\ UNCHANGED precondition_result
       ELSE IF /\ op = "execute_action"
               /\ \/ \A t \in DOMAIN sessions : sessions[t].user_id # args.user_id
                  \/ /\ hub_config.consent_required
                     /\ args.user_id \in DOMAIN consents
                     /\ consents[args.user_id].revoked
       THEN /\ pc' = "done"
            /\ outcome' = Raise("HTTPException", "Request aborted")
            /\ calls' = Answered(response)
            /\ precondition_result' = checked.value
       ELSE /\ precondition_result' = checked.value
            /\ AfterPrecondition(op, Answered(response), args.action, args.user_id,
                                 args.params, checked.value)
    /\ UNCHANGED <<op, args, hooks>>
    /\ UNCHANGED hubVars
    /\ UNCHANGED storeVars
    /\ UNCHANGED probe
    /\ UNCHANGED managerVars

\* the precondition agent answers (or the send fails): check_precondition
\* resumes at line 120 and, inside handle_action, the pipeline goes on to
\* line 304
PreconditionResponse(response) ==
    /\ pc = "await_precondition"
    /\ LET checked == precondition_outcome(send_to_agent(response)) IN
       IF op = "check_precondition" \/ checked.kind = "raise"
       THEN /\ pc' = "done"
            /\ outcome' = respond(op, checked)
            /\ calls' = Answered(response)
            /\ UNCHANGED precondition_result
       ELSE /\ precondition_result' = checked.value
            /\ AfterPrecondition(op, Answered(response), args.action, args.user_id,
                                 args.params, checked.value)
    /\ UNCHANGED <<op, args, hooks>>
    /\ UNCHANGED hubVars
    /\ UNCHANGED storeVars
    /\ UNCHANGED probe
    /\ UNCHANGED managerVars

on_action_complete_result_unextracted(result) == NoObject

\* handle_action, line 315: the result on_action_complete is given
on_action_complete_result(result) == result

RouteResponseRetrying(response, complete_hook) ==
    /\ pc = "await_route"
    /\ LET sent == send_to_agent(response) IN
       IF sent.kind = "raise" /\ Len(calls) < 3
       THEN /\ pc' = "await_route"
            /\ calls' = Append(Answered(response),
                   Call("route_action", calls[Len(calls)].url,
                        calls[Len(calls)].message))
            /\ UNCHANGED <<hooks, outcome>>
       ELSE /\ pc' = "done"
            /\ calls' = Answered(response)
            /\ outcome' = respond(op, sent)
            /\ hooks' = hooks
    /\ UNCHANGED <<op, args, precondition_result>>
    /\ UNCHANGED hubVars
    /\ UNCHANGED storeVars
    /\ UNCHANGED probe
    /\ UNCHANGED managerVars

\* the action's agent answers (or the send fails): route_action resumes at
\* line 72 and, inside handle_action, the pipeline goes on to line 315
RouteResponse(response, complete_hook) ==
    /\ pc = "await_route"
    /\ pc' = "done"
    /\ calls' = Answered(response)
    /\ LET sent == send_to_agent(response) IN
       IF sent.kind = "raise" \/ op = "route_action"
       THEN /\ outcome' = respond(op, sent)
            /\ hooks' = hooks
       ELSE /\ hooks' = Append(hooks,
                   HookCall("on_action_complete", args.action_id, args.user_id,
                            complete_hook, on_action_complete_result(sent.value),
                            Answered(response)))
            /\ outcome' = IF complete_hook = "raise"
                          THEN respond(op, Raise("HookError", "on_action_complete"))
                          ELSE Return(sent.value)
    /\ UNCHANGED <<op, args, precondition_result>>
    /\ UNCHANGED hubVars
    /\ UNCHANGED storeVars
    /\ UNCHANGED probe
    /\ UNCHANGED managerVars

call_agent_skill_check_exposure(agent_name, skill_id) ==
    IF agent_name \notin DOMAIN agents
    THEN Raise("ValueError", "Agent not found")
    ELSE IF ~is_hub_callable(agents[agent_name].skill_exposure, skill_id)
    THEN Raise("PermissionError", "Skill is not available for agent")
    ELSE NoOutcome

\* call_agent_skill, lines 157-159: the agent lookup is its only check
call_agent_skill_check(agent_name, skill_id) ==
    IF agent_name \notin DOMAIN agents
    THEN Raise("ValueError", "Agent not found")
    ELSE NoOutcome

\* HubRouter.call_agent_skill, called by hub logic: up to the send of line
\* 162; the envelope carries the user id "hub"
CallAgentSkill(agent_name, skill_id, params) ==
    /\ op = "none"
    /\ initialized
    /\ op' = "call_agent_skill"
    /\ args' = [NoArgs EXCEPT !.action = HubAction("", agent_name, skill_id, <<>>),
                              !.user_id = "hub", !.params = params]
    /\ LET rejected == call_agent_skill_check(agent_name, skill_id) IN
       IF rejected.kind = "raise"
       THEN /\ pc' = "done"
            /\ outcome' = rejected
            /\ calls' = calls
       ELSE /\ pc' = "await_skill"
            /\ outcome' = NoOutcome
            /\ calls' = Append(calls,
                   Call("call_agent_skill", agents[agent_name].url,
                        build_a2a_message(<<skill_id>>, "hub", params)))
    /\ UNCHANGED <<hooks, precondition_result>>
    /\ UNCHANGED hubVars
    /\ UNCHANGED storeVars
    /\ UNCHANGED probe
    /\ UNCHANGED managerVars

\* the agent answers (or the send fails): call_agent_skill returns what
\* _send_to_agent returns, or lets its exception through
SkillResponse(response) ==
    /\ pc = "await_skill"
    /\ pc' = "done"
    /\ calls' = Answered(response)
    /\ outcome' = send_to_agent(response)
    /\ UNCHANGED <<op, args, hooks, precondition_result>>
    /\ UNCHANGED hubVars
    /\ UNCHANGED storeVars
    /\ UNCHANGED probe
    /\ UNCHANGED managerVars

-----------------------------------------------------------------------------
(* base_hub.py: health_check and get_hub_card *)

health_check_always_healthy ==
    [status |-> "healthy", hub |-> hub_config.name,
     agents |-> [name \in DOMAIN agents |->
                   [url |-> agents[name].url, healthy |-> TRUE,
                    exposed_skills |-> agents[name].skill_exposure.exposed]],
     actions_count |-> Len(actions)]

\* BaseHub.health_check: what it returns in the current state
health_check ==
    IF ~initialized
    THEN [status |-> "not_initialized"]
    ELSE [status |-> "healthy", hub |-> hub_config.name,
          agents |-> [name \in DOMAIN agents |->
                        [url |-> agents[name].url, healthy |-> TRUE,
                         exposed_skills |-> agents[name].skill_exposure.exposed]],
          actions_count |-> Len(actions)]

HealthCheckPruning ==
    /\ op = "none"
    /\ op' = "health_check"
    /\ pc' = "done"
    /\ outcome' = Return(health_check)
    /\ agents' = EmptyDict
    /\ UNCHANGED <<args, calls, hooks, precondition_result>>
    /\ UNCHANGED <<hub, initialized, hub_config, actions>>
    /\ UNCHANGED storeVars
    /\ UNCHANGED probe
    /\ UNCHANGED managerVars

\* BaseHub.health_check
HealthCheck ==
    /\ op = "none"
    /\ op' = "health_check"
    /\ pc' = "done"
    /\ outcome' = Return(health_check)
    /\ UNCHANGED <<args, calls, hooks, precondition_result>>
    /\ UNCHANGED hubVars
    /\ UNCHANGED storeVars
    /\ UNCHANGED probe
    /\ UNCHANGED managerVars

\* d.items() as a list: every key once
items(d) ==
    CHOOSE l \in [1..Cardinality(DOMAIN d) -> DOMAIN d] :
        \A i, j \in 1..Cardinality(DOMAIN d) : l[i] = l[j] => i = j

\* HubAction.to_dict, for the fields the model keeps
to_dict(action) ==
    [id |-> action.id, agent |-> action.agent, skill |-> action.skill,
     precondition |-> action.precondition]

hub_card_agent_available(name) ==
    [name |-> name, url |-> agents[name].url,
     exposed_skills |-> agents[name].skill_exposure.exposed
                          \o agents[name].skill_exposure.internal]

\* get_hub_card, lines 395-399: the card's entry for one agent
hub_card_agent(name) ==
    [name |-> name, url |-> agents[name].url,
     exposed_skills |-> agents[name].skill_exposure.exposed]

\* BaseHub.get_hub_card, on a hub whose config is loaded
get_hub_card ==
    [name |-> hub_config.name,
     agents |-> [i \in 1..Cardinality(DOMAIN agents) |->
                    hub_card_agent(items(agents)[i])],
     actions |-> [i \in 1..Len(actions) |-> to_dict(actions[i])],
     auth |-> [required |-> hub_config.auth_required, method |-> "magic_link"],
     consent |-> [required |-> hub_config.consent_required]]

\* get_hub_card reads self.config.name first: before initialize the config is
\* None and the attribute access raises
GetHubCard ==
    /\ op = "none"
    /\ op' = "get_hub_card"
    /\ pc' = "done"
    /\ outcome' = IF hub_config = NoConfig
                  THEN Raise("AttributeError", "NoneType has no attribute name")
                  ELSE Return(get_hub_card)
    /\ UNCHANGED <<args, calls, hooks, precondition_result>>
    /\ UNCHANGED hubVars
    /\ UNCHANGED storeVars
    /\ UNCHANGED probe
    /\ UNCHANGED managerVars

\* the caller has its answer; the request is over
Finish ==
    /\ pc = "done"
    /\ op' = "none"
    /\ pc' = "idle"
    /\ args' = NoArgs
    /\ calls' = <<>>
    /\ hooks' = <<>>
    /\ precondition_result' = NoObject
    /\ outcome' = NoOutcome
    /\ UNCHANGED hubVars
    /\ UNCHANGED storeVars
    /\ UNCHANGED probe
    /\ UNCHANGED managerVars

-----------------------------------------------------------------------------
(* consent.py and BaseHub.record_consent *)

ConsentRecord(user_id, timestamp) ==
    [user_id |-> user_id, timestamp |-> timestamp, revoked |-> FALSE,
     revoked_at |-> -1, consent_version |-> "1.0"]

record_consent_first_only(user_id) ==
    consents @@ (user_id :> ConsentRecord(user_id, now))

\* ConsentManager.record_consent, lines 67-75: the store after the upsert
record_consent_upsert(user_id) ==
    (user_id :> ConsentRecord(user_id, now)) @@ consents

\* BaseHub.record_consent up to line 367: ConsentManager.record_consent has
\* written the record; the on_user_consent hook is about to be awaited
RecordConsent(user_id) ==
    /\ op = "none"
    /\ initialized
    /\ op' = "record_consent"
    /\ pc' = "consent_hook"
    /\ args' = [NoArgs EXCEPT !.user_id = user_id]
    /\ consents' = record_consent_upsert(user_id)
    /\ outcome' = NoOutcome
    /\ UNCHANGED <<calls, hooks, precondition_result>>
    /\ UNCHANGED hubVars
    /\ UNCHANGED <<sessions, pending_links, now>>
    /\ UNCHANGED probe
    /\ UNCHANGED managerVars

consents_rolled_back(user_id, consent_hook) ==
    IF consent_hook = "raise"
    THEN [u \in (DOMAIN consents) \ {user_id} |-> consents[u]]
    ELSE consents

\* record_consent, lines 369-372: nothing is written after the hook
consents_after_hook(user_id, consent_hook) == consents

\* BaseHub.record_consent from line 370: the on_user_consent hook runs, then
\* the manager's result is returned, unless the hook raised
ConsentHook(consent_hook) ==
    /\ pc = "consent_hook"
    /\ pc' = "done"
    /\ hooks' = Append(hooks,
           HookCall("on_user_consent", "", args.user_id, consent_hook,
                    NoObject, calls))
    /\ consents' = consents_after_hook(args.user_id, consent_hook)
    /\ outcome' = IF consent_hook = "raise"
                  THEN Raise("HookError", "on_user_consent")
                  ELSE Return(Flat([success |-> "True", user_id |-> args.user_id,
                                    timestamp |-> ToString(consents[args.user_id].timestamp),
                                    message |-> "Consent recorded successfully"]))
    /\ UNCHANGED <<op, args, calls, precondition_result>>
    /\ UNCHANGED hubVars
    /\ UNCHANGED <<sessions, pending_links, now>>
    /\ UNCHANGED probe
    /\ UNCHANGED managerVars

-----------------------------------------------------------------------------

Next ==
    \/ Initialize
    \/ \E action_id \in ActionIds, user_id \in Users, params \in ParamChoices,
          start_hook \in HookBehaviours :
            HandleAction(action_id, user_id, params, start_hook)
    \/ \E i \in 1..Len(actions), user_id \in Users, params \in ParamChoices :
            RouteAction(actions[i], user_id, params)
    \/ \E precondition_skill \in PreconditionRefs, user_id \in Users,
          params \in ParamChoices :
            CheckPrecondition(precondition_skill, user_id, params)
    \/ \E response \in Responses : PreconditionResponse(response)
    \/ \E response \in Responses, complete_hook \in HookBehaviours :
            RouteResponse(response, complete_hook)
    \/ \E agent_name \in AgentNames, skill_id \in CalledSkills,
          params \in ParamChoices :
            CallAgentSkill(agent_name, skill_id, params)
    \/ \E response \in Responses : SkillResponse(response)
    \/ HealthCheck
    \/ GetHubCard
    \/ \E user_id \in Users : RecordConsent(user_id)
    \/ \E consent_hook \in HookBehaviours : ConsentHook(consent_hook)
    \/ Finish

Spec == Init /\ [][Next]_vars

\* every agent call ends: the router's client answers, fails or times out
\* after 30 seconds (router.py, line 36), and the event loop then resumes the
\* coroutine that awaits it
AgentCallsEnd ==
    /\ WF_vars(\E response \in Responses : PreconditionResponse(response))
    /\ WF_vars(\E response \in Responses, complete_hook \in HookBehaviours :
                  RouteResponse(response, complete_hook))
    /\ WF_vars(\E response \in Responses : SkillResponse(response))

SpecAgentsAnswer == Init /\ [][Next]_vars /\ AgentCallsEnd

-----------------------------------------------------------------------------
(* SkillExposure on its own: every exposure whose three lists hold at most  *)
(* MaxListLen skill ids each, queried for one skill id                      *)

MaxListLen == 2

SkillIds == {"a", "b", "c"}

SkillLists == UNION { [1..n -> SkillIds] : n \in 0..MaxListLen }

InitExposure ==
    /\ hub = TutorHub
    /\ Constructed
    /\ probe \in [exposure : [exposed : SkillLists, hidden : SkillLists,
                              internal : SkillLists],
                  skill_id : SkillIds \cup {"z"},
                  asked : {FALSE}, user_callable : {FALSE}, hub_callable : {FALSE}]
    /\ ManagersConstructed
    /\ auth_config = DefaultAuthConfig
    /\ consent_config = DefaultConsentConfig

QuerySkillExposure ==
    /\ ~probe.asked
    /\ probe' = [probe EXCEPT
                    !.asked = TRUE,
                    !.user_callable = is_user_callable(probe.exposure, probe.skill_id),
                    !.hub_callable = is_hub_callable(probe.exposure, probe.skill_id)]
    /\ UNCHANGED hubVars
    /\ UNCHANGED storeVars
    /\ UNCHANGED taskVars
    /\ UNCHANGED managerVars

NextExposure == QuerySkillExposure

SpecExposure == InitExposure /\ [][NextExposure]_vars

-----------------------------------------------------------------------------
(* auth.py: the AuthManager on its own. Time is counted in minutes. An      *)
(* email is the sequence of its "@"-separated pieces, so that endswith and  *)
(* split are computed: bob@virginia.edu is <<"bob", "virginia.edu">>.       *)

MaxTokens == 4
MaxTime == 90
ClockStep == 30

LinkMinutes == 15
MinutesPerHour == 60

Emails ==
    { <<"bob", "virginia.edu">>, <<"bob", "other.edu">> }

Tokens == 1..MaxTokens

\* the hubs' configure_auth: no restriction, the restriction of the training
\* hub, and a restriction to another domain; sessions last an hour
AuthConfigs ==
    { AuthConfig("None", 1), AuthConfig("virginia.edu", 1),
      AuthConfig("other.edu", 1) }

\* email.endswith("@" + domain), for a domain without "@"
EndsWithAt(email, domain) == Len(email) >= 2 /\ email[Len(email)] = domain

validate_email_any(config, email) == TRUE

\* AuthConfig.validate_email
validate_email(config, email) ==
    IF config.email_domain = "None" THEN TRUE
    ELSE EndsWithAt(email, config.email_domain)

\* hashlib.sha256(email.encode()).hexdigest()[:12]
sha256_hex12(email) ==
    CASE email = <<"bob", "virginia.edu">> -> "e61e43fc1876"
      [] email = <<"bob", "other.edu">> -> "bc39850ea4c1"

\* AuthManager._email_to_user_id: the domain is the literal of line 179
email_to_user_id(email) ==
    IF EndsWithAt(email, "virginia.edu") THEN email[1] ELSE sha256_hex12(email)

PendingLink(email, expires) == [email |-> email, expires |-> expires]

Session_of_email(user_id, email, expires, created) ==
    [user_id |-> email[1], email |-> email, expires |-> created,
     created |-> created]

\* verify_magic_link, lines 105-110
Session(user_id, email, expires, created) ==
    [user_id |-> user_id, email |-> email, expires |-> expires,
     created |-> created]

never_expired(record) == FALSE

\* datetime.now() > record["expires"]
expired(record) == now > record.expires

\* d without the key k
Without(d, k) == [j \in (DOMAIN d) \ {k} |-> d[j]]

Called(name, token, email, result) ==
    [op |-> name, token |-> token, email |-> email, user_id |-> "",
     result |-> result]

authFrame == <<consents, consent_config, auth_config, probe>>

\* AuthManager.send_magic_link
SendMagicLink(email) ==
    /\ IF ~validate_email(auth_config, email)
       THEN /\ last_call' = Called("send_magic_link", 0, email,
                   [NoReply EXCEPT !.success = "False",
                                   !.error = "Email must be from",
                                   !.detail = auth_config.email_domain])
            /\ UNCHANGED <<pending_links, minted>>
       ELSE /\ minted < MaxTokens
            /\ minted' = minted + 1
            /\ pending_links' =
                 (minted' :> PendingLink(email, now + LinkMinutes)) @@ pending_links
            /\ last_call' = Called("send_magic_link", 0, email,
                   [NoReply EXCEPT !.success = "True", !.token = minted'])
    /\ UNCHANGED <<sessions, now, verified>>
    /\ UNCHANGED authFrame
    /\ UNCHANGED hubVars
    /\ UNCHANGED taskVars

verify_keeps_link(token) == pending_links

\* verify_magic_link, line 113: the used link is deleted
verify_consumes_link(token) == Without(pending_links, token)

\* AuthManager.verify_magic_link
VerifyMagicLink(token) ==
    /\ IF token \notin DOMAIN pending_links
       THEN /\ last_call' = Called("verify_magic_link", token, <<>>,
                   [NoReply EXCEPT !.success = "False",
                                   !.error = "Invalid or expired link"])
            /\ UNCHANGED <<pending_links, sessions, minted, verified>>
       ELSE IF expired(pending_links[token])
       THEN /\ pending_links' = Without(pending_links, token)
            /\ last_call' = Called("verify_magic_link", token, <<>>,
                   [NoReply EXCEPT !.success = "False",
                                   !.error = "Link has expired"])
            /\ UNCHANGED <<sessions, minted, verified>>
       ELSE LET email == pending_links[token].email
                user_id == email_to_user_id(email)
                session_expires ==
                    now + auth_config.session_duration_hours * MinutesPerHour
            IN  /\ minted < MaxTokens
                /\ minted' = minted + 1
                /\ sessions' =
                     (minted' :> Session(user_id, email, session_expires, now))
                        @@ sessions
                /\ pending_links' = verify_consumes_link(token)
                /\ verified' = verified \cup {<<token, minted'>>}
                /\ last_call' = Called("verify_magic_link", token, <<>>,
                       [NoReply EXCEPT !.success = "True", !.token = minted',
                                       !.user_id = user_id, !.email = email,
                                       !.expires = session_expires])
    /\ UNCHANGED now
    /\ UNCHANGED authFrame
    /\ UNCHANGED hubVars
    /\ UNCHANGED taskVars

validate_keeps_expired(session_token) == sessions

\* validate_session, line 141: the expired session is deleted
validate_drops_expired(session_token) == Without(sessions, session_token)

\* AuthManager.validate_session
ValidateSession(session_token) ==
    /\ IF session_token \notin DOMAIN sessions
       THEN /\ last_call' = Called("validate_session", session_token, <<>>, NoReply)
            /\ UNCHANGED sessions
       ELSE IF expired(sessions[session_token])
       THEN /\ sessions' = validate_drops_expired(session_token)
            /\ last_call' = Called("validate_session", session_token, <<>>, NoReply)
       ELSE /\ last_call' = Called("validate_session", session_token, <<>>,
                   [NoReply EXCEPT !.success = "True",
                        !.user_id = sessions[session_token].user_id,
                        !.email = sessions[session_token].email,
                        !.expires = sessions[session_token].expires])
            /\ UNCHANGED sessions
    /\ UNCHANGED <<pending_links, now, minted, verified>>
    /\ UNCHANGED authFrame
    /\ UNCHANGED hubVars
    /\ UNCHANGED taskVars

invalidate_removes_all(session_token) == EmptyDict

\* invalidate_session, line 161
invalidate_removes(session_token) == Without(sessions, session_token)

\* AuthManager.invalidate_session
InvalidateSession(session_token) ==
    /\ IF session_token \in DOMAIN sessions
       THEN /\ sessions' = invalidate_removes(session_token)
            /\ last_call' = Called("invalidate_session", session_token, <<>>,
                   [NoReply EXCEPT !.success = "True"])
       ELSE /\ last_call' = Called("invalidate_session", session_token, <<>>,
                   [NoReply EXCEPT !.success = "False"])
            /\ UNCHANGED sessions
    /\ UNCHANGED <<pending_links, now, minted, verified>>
    /\ UNCHANGED authFrame
    /\ UNCHANGED hubVars
    /\ UNCHANGED taskVars

cleanup_drops_all(store) == EmptyDict

\* cleanup_expired, lines 193-206: the store once the tokens whose record
\* has expired are deleted
cleanup_drops_expired(store) ==
    [t \in {k \in DOMAIN store : ~expired(store[k])} |-> store[t]]

\* AuthManager.cleanup_expired
CleanupExpired ==
    /\ pending_links' = cleanup_drops_expired(pending_links)
    /\ sessions' = cleanup_drops_expired(sessions)
    /\ last_call' = Called("cleanup_expired", 0, <<>>, NoReply)
    /\ UNCHANGED <<now, minted, verified>>
    /\ UNCHANGED authFrame
    /\ UNCHANGED hubVars
    /\ UNCHANGED taskVars

\* datetime.now() moves on
Tick ==
    /\ now + ClockStep <= MaxTime
    /\ now' = now + ClockStep
    /\ UNCHANGED <<sessions, pending_links, minted, verified, last_call>>
    /\ UNCHANGED authFrame
    /\ UNCHANGED hubVars
    /\ UNCHANGED taskVars

InitAuth ==
    /\ hub = TutorHub
    /\ Constructed
    /\ probe = NoProbe
    /\ ManagersConstructed
    /\ auth_config \in AuthConfigs
    /\ consent_config = DefaultConsentConfig

NextAuth ==
    \/ \E email \in Emails : SendMagicLink(email)
    \/ \E token \in Tokens : VerifyMagicLink(token)
    \/ \E session_token \in Tokens : ValidateSession(session_token)
    \/ \E session_token \in Tokens : InvalidateSession(session_token)
    \/ CleanupExpired
    \/ Tick

SpecAuth == InitAuth /\ [][NextAuth]_vars

-----------------------------------------------------------------------------
(* consent.py: the ConsentManager on its own *)

\* the hubs' configure_consent
ConsentConfigs == {ConsentConfig(required, revocable) : required, revocable \in BOOLEAN}

has_consented_once_recorded(config, store, user_id) ==
    IF ~config.required THEN TRUE ELSE user_id \in DOMAIN store

\* ConsentManager.has_consented, as a function of the policy and the store
has_consented(config, store, user_id) ==
    IF ~config.required THEN TRUE
    ELSE IF user_id \notin DOMAIN store THEN FALSE
    ELSE IF store[user_id].revoked THEN FALSE
    ELSE TRUE

ConsentCalled(name, user_id, result) ==
    [op |-> name, token |-> 0, email |-> <<>>, user_id |-> user_id,
     result |-> result]

consentFrame == <<sessions, pending_links, now, minted, verified, auth_config,
                  consent_config, probe>>

\* ConsentManager.has_consented
HasConsented(user_id) ==
    /\ last_call' = ConsentCalled("has_consented", user_id,
           [NoReply EXCEPT !.success =
               IF has_consented(consent_config, consents, user_id)
               THEN "True" ELSE "False"])
    /\ UNCHANGED consents
    /\ UNCHANGED consentFrame
    /\ UNCHANGED hubVars
    /\ UNCHANGED taskVars

\* ConsentManager.record_consent
StoreConsent(user_id) ==
    /\ consents' = record_consent_upsert(user_id)
    /\ last_call' = ConsentCalled("record_consent", user_id,
           [NoReply EXCEPT !.success = "True", !.user_id = user_id,
                           !.timestamp = now])
    /\ UNCHANGED consentFrame
    /\ UNCHANGED hubVars
    /\ UNCHANGED taskVars

revoke_consent_mark_all(user_id) ==
    [u \in DOMAIN consents |->
        [consents[u] EXCEPT !.revoked = TRUE, !.revoked_at = now]]

\* revoke_consent, lines 109-110: the store after the revocation
revoke_consent_mark(user_id) ==
    [consents EXCEPT ![user_id].revoked = TRUE, ![user_id].revoked_at = now]

\* ConsentManager.revoke_consent
RevokeConsent(user_id) ==
    /\ IF ~consent_config.revocable
       THEN /\ last_call' = ConsentCalled("revoke_consent", user_id,
                   [NoReply EXCEPT !.success = "False",
                        !.error = "Consent cannot be revoked for this hub"])
            /\ UNCHANGED consents
       ELSE IF user_id \notin DOMAIN consents
       THEN /\ last_call' = ConsentCalled("revoke_consent", user_id,
                   [NoReply EXCEPT !.success = "False",
                        !.error = "No consent record found"])
            /\ UNCHANGED consents
       ELSE /\ consents' = revoke_consent_mark(user_id)
            /\ last_call' = ConsentCalled("revoke_consent", user_id,
                   [NoReply EXCEPT !.success = "True", !.user_id = user_id])
    /\ UNCHANGED consentFrame
    /\ UNCHANGED hubVars
    /\ UNCHANGED taskVars

\* datetime.isoformat(), of a time counted in minutes
isoformat(t) == ToString(t)

\* consent["revoked_at"].isoformat() if consent["revoked_at"] else None
revoked_at_text(record) ==
    IF record.revoked_at = -1 THEN "None" ELSE isoformat(record.revoked_at)

\* get_consent_info, lines 134-140: what it returns for a record
consent_info(record) ==
    [user_id |-> record.user_id, consented_at |-> isoformat(record.timestamp),
     revoked |-> record.revoked, revoked_at |-> revoked_at_text(record),
     consent_version |-> record.consent_version]

\* ConsentManager.get_consent_info: None, or the record's info (held as the
\* one element of records)
GetConsentInfo(user_id) ==
    /\ last_call' = ConsentCalled("get_consent_info", user_id,
           IF user_id \notin DOMAIN consents
           THEN NoReply
           ELSE [NoReply EXCEPT !.success = "True",
                                !.records = <<consent_info(consents[user_id])>>])
    /\ UNCHANGED consents
    /\ UNCHANGED consentFrame
    /\ UNCHANGED hubVars
    /\ UNCHANGED taskVars

\* ConsentManager.get_all_consented_users
GetAllConsentedUsers ==
    /\ last_call' = ConsentCalled("get_all_consented_users", "",
           [NoReply EXCEPT !.success = "True",
                !.users = {u \in DOMAIN consents : ~consents[u].revoked}])
    /\ UNCHANGED consents
    /\ UNCHANGED consentFrame
    /\ UNCHANGED hubVars
    /\ UNCHANGED taskVars

\* export_consent_records, lines 180-186: one entry of the list
export_record(record) ==
    [user_id |-> record.user_id, consented_at |-> isoformat(record.timestamp),
     revoked |-> record.revoked, revoked_at |-> revoked_at_text(record)]

export_active_records ==
    LET active == [u \in {v \in DOMAIN consents : ~consents[v].revoked}
                     |-> consents[u]]
    IN  [i \in 1..Len(items(active)) |-> export_record(active[items(active)[i]])]

\* export_consent_records, lines 179-187: the list it returns
export_consent_records ==
    [i \in 1..Len(items(consents)) |-> export_record(consents[items(consents)[i]])]

\* ConsentManager.export_consent_records
ExportConsentRecords ==
    /\ last_call' = ConsentCalled("export_consent_records", "",
           [NoReply EXCEPT !.success = "True", !.records = export_consent_records])
    /\ UNCHANGED consents
    /\ UNCHANGED consentFrame
    /\ UNCHANGED hubVars
    /\ UNCHANGED taskVars

InitConsent ==
    /\ hub = TutorHub
    /\ Constructed
    /\ probe = NoProbe
    /\ ManagersConstructed
    /\ auth_config = DefaultAuthConfig
    /\ consent_config \in ConsentConfigs

NextConsent ==
    \/ \E user_id \in Users : HasConsented(user_id)
    \/ \E user_id \in Users : StoreConsent(user_id)
    \/ \E user_id \in Users : RevokeConsent(user_id)
    \/ \E user_id \in Users : GetConsentInfo(user_id)
    \/ GetAllConsentedUsers
    \/ ExportConsentRecords
    \/ Tick

SpecConsent == InitConsent /\ [][NextConsent]_vars

-----------------------------------------------------------------------------
(* handlers/hub_handler.py: POST /action, over a hub with its AuthManager   *)
(* and its ConsentManager. Other clients log in, log out, consent and       *)
(* revoke while a request is suspended on an agent call.                    *)

\* _get_session_token found neither a Bearer header nor a cookie
NoToken == 0

\* _require_auth, lines 256-274: the exception that ends the request, if any;
\* before initialize the hub has no auth_manager to ask
require_auth(session_token) ==
    IF session_token = NoToken
    THEN HTTPException("401", "Authentication required")
    ELSE IF ~initialized
    THEN Raise("AttributeError", "validate_session")
    ELSE IF session_token \notin DOMAIN sessions
    THEN HTTPException("401", "Invalid or expired session")
    ELSE IF expired(sessions[session_token])
    THEN HTTPException("401", "Invalid or expired session")
    ELSE NoOutcome

consent_gate_open(user_id) == NoOutcome

\* execute_action, lines 195-201: the exception that ends the request, if any
consent_gate(user_id) ==
    IF hub_config.consent_required
          /\ ~has_consented(consent_config, consents, user_id)
    THEN HTTPException("403", "Consent required before using this hub")
    ELSE NoOutcome

\* the request ends before handle_action is called
Rejected(action_id, params, exception) ==
    /\ op' = "execute_action"
    /\ pc' = "done"
    /\ args' = NoArgs
    /\ outcome' = exception
    /\ UNCHANGED <<calls, hooks, precondition_result>>
    /\ UNCHANGED hubVars
    /\ UNCHANGED probe

\* execute_action from its entry to handle_action's first await on the
\* network (or its end); last_call is the last manager method it called
ExecuteAction(session_token, action_id, params, start_hook) ==
    /\ op = "none"
    /\ LET auth == require_auth(session_token) IN
       IF auth.kind = "raise"
       THEN /\ Rejected(action_id, params, auth)
            /\ sessions' = IF /\ initialized
                              /\ session_token \in DOMAIN sessions
                              /\ expired(sessions[session_token])
                           THEN validate_drops_expired(session_token)
                           ELSE sessions
            /\ last_call' = IF session_token # NoToken /\ initialized
                            THEN Called("validate_session", session_token, <<>>,
                                        NoReply)
                            ELSE last_call
       ELSE LET user_id == sessions[session_token].user_id
                consent == consent_gate(user_id)
            IN  /\ IF consent.kind = "raise"
                   THEN Rejected(action_id, params, consent)
                   ELSE EnterHandleAction("execute_action", action_id, user_id,
                                          params, start_hook)
                /\ last_call' =
                     IF hub_config.consent_required
                     THEN ConsentCalled("has_consented", user_id,
                              [NoReply EXCEPT !.success =
                                  IF has_consented(consent_config, consents, user_id)
                                  THEN "True" ELSE "False"])
                     ELSE Called("validate_session", session_token, <<>>,
                              [NoReply EXCEPT !.success = "True",
                                   !.user_id = user_id,
                                   !.email = sessions[session_token].email,
                                   !.expires = sessions[session_token].expires])
                /\ UNCHANGED sessions
    /\ UNCHANGED <<consents, pending_links, now, minted, verified>>
    /\ UNCHANGED <<auth_config, consent_config>>

\* the training hub, and the same hub with consent switched off
OpenPracticeHub ==
    [PracticeHub EXCEPT !.config = HubConfig("Open Practice Hub", TRUE, FALSE)]

BoundaryHubs == {PracticeHub, OpenPracticeHub}

\* the client: one student of the hub's domain, whose user id is "bob"
BoundaryEmails == { <<"bob", "virginia.edu">> }

BoundaryUsers == { email_to_user_id(email) : email \in BoundaryEmails }

\* an action behind a precondition, an action on an internal skill and an
\* unknown action
BoundaryActionIds == {"A1", "A4", "A9"}

\* a body without a user id, and one that names another user
BoundaryParams == { EmptyDict, [user_id |-> "u2"] }

BoundaryResponses ==
    { Failure("invalid_json"),
      ResultResponse(DataResult([has_pending |-> "True"])),
      ResultResponse(DataResult([result |-> "ok"])) }

\* the links and sessions the client asks for
MaxLogins == 2

InitBoundary ==
    /\ hub \in BoundaryHubs
    /\ Constructed
    /\ probe = NoProbe
    /\ ManagersConstructed
    /\ auth_config = AuthConfig("virginia.edu", 1)
    /\ consent_config = DefaultConsentConfig

\* the managers exist once the hub is initialized
NextBoundary ==
    \/ Initialize
    \/ /\ initialized
       /\ minted < MaxLogins
       /\ \E email \in BoundaryEmails : SendMagicLink(email)
    \/ /\ initialized
       /\ minted < MaxLogins
       /\ \E token \in Tokens : VerifyMagicLink(token)
    \/ initialized /\ \E session_token \in Tokens : InvalidateSession(session_token)
    \/ initialized /\ \E user_id \in BoundaryUsers : StoreConsent(user_id)
    \/ initialized /\ \E user_id \in BoundaryUsers : RevokeConsent(user_id)
    \/ Tick
    \/ \E session_token \in Tokens \cup {NoToken}, action_id \in BoundaryActionIds,
          params \in BoundaryParams, start_hook \in HookBehaviours :
            ExecuteAction(session_token, action_id, params, start_hook)
    \/ \E response \in BoundaryResponses : PreconditionResponse(response)
    \/ \E response \in BoundaryResponses, complete_hook \in HookBehaviours :
            RouteResponse(response, complete_hook)
    \/ Finish

SpecBoundary == InitBoundary /\ [][NextBoundary]_vars

-----------------------------------------------------------------------------
(* The hub with everything that runs on it: the dispatcher's and the        *)
(* router's operations and the operations of its two managers, for one      *)
(* client and a few requests                                                *)

RegistryActionIds == {"A1", "A9"}

RegistryResponses ==
    { ResultResponse(DataResult([has_pending |-> "True"])),
      ResultResponse(DataResult([result |-> "ok"])) }

InitRegistry ==
    /\ hub = PracticeHub
    /\ Constructed
    /\ probe = NoProbe
    /\ ManagersConstructed
    /\ auth_config = AuthConfig("virginia.edu", 1)
    /\ consent_config = DefaultConsentConfig

NextRegistry ==
    \/ Initialize
    \/ \E action_id \in RegistryActionIds, user_id \in BoundaryUsers :
            HandleAction(action_id, user_id, EmptyDict, "ok")
    \/ \E i \in 1..Len(actions), user_id \in BoundaryUsers :
            /\ actions[i].id \in RegistryActionIds
            /\ RouteAction(actions[i], user_id, EmptyDict)
    \/ \E user_id \in BoundaryUsers :
            CheckPrecondition(<<"check_pending">>, user_id, EmptyDict)
    \/ \E response \in RegistryResponses : PreconditionResponse(response)
    \/ \E response \in RegistryResponses : RouteResponse(response, "ok")
    \/ CallAgentSkill("le_veilleur", "create_profile", EmptyDict)
    \/ \E response \in RegistryResponses : SkillResponse(response)
    \/ HealthCheck
    \/ GetHubCard
    \/ \E user_id \in BoundaryUsers : RecordConsent(user_id)
    \/ ConsentHook("ok")
    \/ /\ initialized
       /\ minted < MaxLogins
       /\ \E email \in BoundaryEmails : SendMagicLink(email)
    \/ /\ initialized
       /\ minted < MaxLogins
       /\ \E token \in Tokens : VerifyMagicLink(token)
    \/ initialized /\ \E session_token \in Tokens : ValidateSession(session_token)
    \/ initialized /\ \E session_token \in Tokens : InvalidateSession(session_token)
    \/ initialized /\ CleanupExpired
    \/ initialized /\ \E user_id \in BoundaryUsers : HasConsented(user_id)
    \/ initialized /\ \E user_id \in BoundaryUsers : StoreConsent(user_id)
    \/ initialized /\ \E user_id \in BoundaryUsers : RevokeConsent(user_id)
    \/ initialized /\ \E user_id \in BoundaryUsers : GetConsentInfo(user_id)
    \/ initialized /\ GetAllConsentedUsers
    \/ initialized /\ ExportConsentRecords
    \/ Tick
    \/ Finish

SpecRegistry == InitRegistry /\ [][NextRegistry]_vars

-----------------------------------------------------------------------------
(* Properties *)

\* the elements of a list
SetOf(l) == { l[i] : i \in 1..Len(l) }

HandleActionResolved ==
    /\ op = "handle_action"
    /\ args.action # NoAction
    /\ args.action.agent \in DOMAIN agents

Raised(exc) == pc = "done" /\ outcome.kind = "raise" /\ outcome.exc = exc

\* C1: when handle_action, on an initialized hub, resolves an action whose
\* skill is not in the exposed list of the action's agent (hidden, internal
\* only or unlisted), it fails with PermissionError, and it has invoked no
\* hook (so no on_action_start) and sent nothing (no precondition call, no
\* route call) by then.
C1_NonExposedSkillDenied ==
    (HandleActionResolved
        /\ args.action.skill \notin SetOf(agents[args.action.agent].skill_exposure.exposed))
    => (Raised("PermissionError") /\ hooks = <<>> /\ calls = <<>>)

C1_Witness ==
    /\ HandleActionResolved
    /\ args.action.skill \in SetOf(agents[args.action.agent].skill_exposure.internal)
    /\ args.action.skill \notin SetOf(agents[args.action.agent].skill_exposure.exposed)
    /\ Raised("PermissionError")

\* C2: route_action sends to the agent iff the action's agent is registered
\* and the skill is in exposed or internal for it; then it sends exactly one
\* envelope, to that agent, naming that skill.  An unregistered agent gives
\* ValueError (agent not found), a skill only hidden or unlisted gives
\* PermissionError, both with no send at all.
C2_RouteSendsIffHubCallable ==
    (op = "route_action") =>
        LET registered == args.action.agent \in DOMAIN agents
            exposure == agents[args.action.agent].skill_exposure
            callable == registered /\ args.action.skill \in
                            SetOf(exposure.exposed) \cup SetOf(exposure.internal)
        IN  /\ (calls # <<>>) <=> callable
            /\ ~registered =>
                   (Raised("ValueError") /\ outcome.msg = "Agent not found")
            /\ (registered /\ ~callable) => Raised("PermissionError")
            /\ callable =>
                   /\ Len(calls) = 1
                   /\ calls[1].url = agents[args.action.agent].url
                   /\ calls[1].message.skill = <<args.action.skill>>

C2_Witness ==
    /\ op = "route_action"
    /\ args.action.agent \in DOMAIN agents
    /\ args.action.skill \in SetOf(agents[args.action.agent].skill_exposure.internal)
    /\ args.action.skill \notin SetOf(agents[args.action.agent].skill_exposure.exposed)
    /\ Len(calls) = 1
    /\ pc = "done"
    /\ outcome.kind = "return"

\* C3: for every SkillExposure and skill id, is_user_callable answers whether
\* the id is in exposed, is_hub_callable whether it is in exposed or in
\* internal (so the hidden list never matters), and a user-callable skill is
\* hub-callable.
C3_ExposureQueries ==
    (probe.asked) =>
        /\ probe.user_callable <=> (probe.skill_id \in SetOf(probe.exposure.exposed))
        /\ probe.hub_callable <=>
              (probe.skill_id \in SetOf(probe.exposure.exposed)
                                    \cup SetOf(probe.exposure.internal))
        /\ probe.user_callable => probe.hub_callable

C3_Witness ==
    /\ probe.asked
    /\ probe.skill_id \in SetOf(probe.exposure.hidden)
    /\ probe.skill_id \in SetOf(probe.exposure.exposed)
    /\ probe.skill_id \notin SetOf(probe.exposure.internal)
    /\ probe.user_callable
    /\ probe.hub_callable

\* C4 (as an action property over the step that runs handle_action's
\* checks): handle_action rejects in a fixed order: RuntimeError when the hub
\* is not initialized, else ValueError "Unknown action" when no loaded action
\* has that id, else ValueError "Unknown agent" when the action's agent is
\* not registered, else PermissionError when the skill is not exposed; a
\* rejected call has invoked no hook and sent nothing and leaves the session,
\* pending-link and consent maps as they were; a call that passes all four
\* checks is not rejected and reaches on_action_start.
C4_RejectionOrder ==
    [][ (op = "none" /\ op' = "handle_action") =>
        LET id == args'.action_id
            known == \E i \in 1..Len(actions) : actions[i].id = id
            act == actions[CHOOSE i \in 1..Len(actions) : actions[i].id = id]
            registered == act.agent \in DOMAIN agents
            exposed == act.skill \in SetOf(agents[act.agent].skill_exposure.exposed)
            rejected == ~initialized \/ ~known \/ ~registered \/ ~exposed
        IN  /\ ~initialized => outcome'.exc = "RuntimeError"
            /\ (initialized /\ ~known) =>
                   (outcome'.exc = "ValueError" /\ outcome'.msg = "Unknown action")
            /\ (initialized /\ known /\ ~registered) =>
                   (outcome'.exc = "ValueError" /\ outcome'.msg = "Unknown agent")
            /\ (initialized /\ known /\ registered /\ ~exposed) =>
                   outcome'.exc = "PermissionError"
            /\ rejected =>
                   /\ pc' = "done"
                   /\ outcome'.kind = "raise"
                   /\ hooks' = <<>>
                   /\ calls' = <<>>
                   /\ UNCHANGED <<sessions, pending_links, consents>>
            /\ ~rejected =>
                   /\ outcome'.exc \notin {"RuntimeError", "ValueError", "PermissionError"}
                   /\ Len(hooks') = 1
                   /\ hooks'[1].name = "on_action_start"
      ]_vars

C4_Witness ==
    /\ op = "handle_action"
    /\ initialized
    /\ Raised("ValueError")
    /\ outcome.msg = "Unknown agent"
    /\ hooks = <<>>
    /\ calls = <<>>
    /\ DOMAIN consents # {}

\* handle_action got the answer of its precondition check and the answer is
\* not satisfied (no truthy "satisfied" entry)
PreconditionReportedUnsatisfied ==
    /\ op = "handle_action"
    /\ calls # <<>>
    /\ calls[1].via = "check_precondition"
    /\ calls[1].response # NoResponse
    /\ Get(precondition_result.fields, "satisfied", "False") \in {"False", "None", ""}

ReturnedPreconditionFailed ==
    /\ pc = "done"
    /\ outcome.kind = "return"
    /\ DOMAIN outcome.value.fields = {"status", "message", "action_required"}
    /\ outcome.value.fields["status"] = "precondition_failed"
    /\ outcome.value.fields["message"] =
           Get(precondition_result.fields, "message", "Precondition not met")
    /\ outcome.value.fields["action_required"] =
           Get(precondition_result.fields, "action_required", "None")

\* C5 (as claimed): when the precondition check reports unsatisfied,
\* handle_action returns precondition_failed with the check's message and
\* hint, and no network call of the request went to the action's own agent.
C5_NoCallToOwnAgent ==
    PreconditionReportedUnsatisfied =>
        /\ ReturnedPreconditionFailed
        /\ \A i \in 1..Len(calls) : calls[i].url # agents[args.action.agent].url

\* C5 (amended): when the precondition check reports unsatisfied,
\* handle_action returns precondition_failed with the check's message and
\* hint, and the action is never routed: the precondition call is the only
\* network call of the request (it goes to the precondition's agent, which
\* may be the action's own agent).
C5_PreconditionFailedNotRouted ==
    PreconditionReportedUnsatisfied =>
        /\ ReturnedPreconditionFailed
        /\ Len(calls) = 1
        /\ \A i \in 1..Len(calls) : calls[i].via # "route_action"

C5_Witness ==
    /\ PreconditionReportedUnsatisfied
    /\ ReturnedPreconditionFailed
    /\ outcome.value.fields["action_required"] = "generate_worksheet"
    /\ calls[1].url = agents[args.action.agent].url

\* handle_action got an answer to its route call
RouteAnswered ==
    /\ op = "handle_action"
    /\ pc = "done"
    /\ calls # <<>>
    /\ calls[Len(calls)].via = "route_action"

\* the answer is a result whose first artifact starts with a data part
CarriesPayload(response) ==
    /\ response.status = "ok"
    /\ response.hasResult
    /\ response.result.hasArtifacts
    /\ Len(response.result.artifacts) >= 1
    /\ response.result.artifacts[1].hasParts
    /\ Len(response.result.artifacts[1].parts) >= 1
    /\ response.result.artifacts[1].parts[1].kind = "data"
    /\ response.result.artifacts[1].parts[1].hasData

\* C6: once the action is routed, what handle_action returns is what the
\* router got from the agent, whatever hooks ran: it returns the payload of
\* the agent's answer whenever no hook failed (a stub answering
\* {"result": "ok"} gives {"result": "ok"}), and whenever it returns after
\* routing, the value is the router's result for that answer.
C6_ReturnsAgentPayload ==
    RouteAnswered =>
        LET response == calls[Len(calls)].response IN
        /\ outcome.kind = "return" => outcome.value = send_to_agent(response).value
        /\ (CarriesPayload(response) /\ \A i \in 1..Len(hooks) : ~hooks[i].raised) =>
               outcome = Return(Flat(response.result.artifacts[1].parts[1].data))

C6_Witness ==
    /\ RouteAnswered
    /\ calls[Len(calls)].response = ResultResponse(DataResult([result |-> "ok"]))
    /\ Len(hooks) = 2
    /\ outcome = Return(Flat([result |-> "ok"]))

\* C7 (as claimed): a lifecycle hook that raises never makes handle_action or
\* record_consent raise: no operation ends with the hook's exception.
C7_HookFailureSwallowed ==
    (\E i \in 1..Len(hooks) : hooks[i].raised) => ~Raised("HookError")

\* the precondition step of handle_action was reached
PreconditionStepReached ==
    /\ op = "handle_action"
    /\ hooks # <<>>
    /\ ~hooks[1].raised
    /\ args.precondition_skill \notin {<<>>, <<"">>}

\* the agent a precondition reference names
NamedAgent(ref) == IF Len(ref) > 1 THEN ref[1] ELSE "le_veilleur"

\* C8: when the agent a precondition names is not registered,
\* check_precondition returns {satisfied: True} without raising and without
\* any send, and handle_action goes on to route the action.
C8_MissingAgentFailsOpen ==
    /\ (op = "check_precondition" /\ NamedAgent(args.precondition_skill) \notin DOMAIN agents)
        => /\ pc = "done"
           /\ outcome = Return(Flat([satisfied |-> "True"]))
           /\ calls = <<>>
    /\ (PreconditionStepReached /\ NamedAgent(args.precondition_skill) \notin DOMAIN agents)
        => /\ precondition_result = Flat([satisfied |-> "True"])
           /\ Len(calls) = 1
           /\ calls[1].via = "route_action"
           /\ calls[1].url = agents[args.action.agent].url

C8_Witness ==
    /\ PreconditionStepReached
    /\ NamedAgent(args.precondition_skill) \notin DOMAIN agents
    /\ pc = "done"
    /\ outcome.kind = "return"
    /\ calls[1].via = "route_action"

\* the call failed: no answer, an HTTP error status, a body that is not JSON,
\* or an answer that reports an error and no result
CallFailed(response) ==
    \/ response.status \in {"network_error", "http_error", "invalid_json"}
    \/ (response.status = "ok" /\ response.hasError /\ ~response.hasResult)

ErrorText(response) ==
    IF response.status = "ok" THEN "Agent error" ELSE response.status

\* C9: when the precondition agent is registered and the call to it fails,
\* check_precondition does not raise and returns satisfied = False with the
\* error's message; handle_action then returns precondition_failed with that
\* message and does not route the action.
C9_FailedCheckFailsClosed ==
    /\ (op = "check_precondition" /\ calls # <<>> /\ CallFailed(calls[1].response))
        => /\ pc = "done"
           /\ outcome = Return(Flat([satisfied |-> "False",
                                     message |-> ErrorText(calls[1].response)]))
    /\ (op = "handle_action" /\ calls # <<>> /\ calls[1].via = "check_precondition"
            /\ CallFailed(calls[1].response))
        => /\ pc = "done"
           /\ outcome.kind = "return"
           /\ outcome.value.fields["status"] = "precondition_failed"
           /\ outcome.value.fields["message"] = ErrorText(calls[1].response)
           /\ Len(calls) = 1

C9_Witness ==
    /\ op = "handle_action"
    /\ calls # <<>>
    /\ calls[1].via = "check_precondition"
    /\ calls[1].response = ErrorResponse("boom")
    /\ pc = "done"
    /\ outcome.value.fields["status"] = "precondition_failed"

\* C10 (as claimed): in every envelope built for route_action or
\* check_precondition, the user_id entry of the parameter bag is the user id
\* the operation was called with.
C10_EnvelopeUserId ==
    \A i \in 1..Len(calls) :
        calls[i].via \in {"route_action", "check_precondition"} =>
            calls[i].message.parameters["user_id"] = args.user_id

\* the send route_action made was answered by a failure
RouteCallFailed ==
    /\ op \in {"route_action", "handle_action"}
    /\ calls # <<>>
    /\ calls[Len(calls)].via = "route_action"
    /\ CallFailed(calls[Len(calls)].response)

SkillOfRegisteredAgent ==
    /\ op = "call_agent_skill"
    /\ args.action.agent \in DOMAIN agents

\* C12: call_agent_skill checks no exposure list. For a registered agent it
\* sends exactly one call, to that agent, for whatever skill id it was given,
\* and its outcome is the outcome of that send; it raises "Agent not found",
\* with no call made, exactly when the agent name is not registered.
C12_CallAgentSkillUnchecked ==
    op = "call_agent_skill" =>
        /\ (args.action.agent \in DOMAIN agents) <=> (Len(calls) = 1)
        /\ (args.action.agent \notin DOMAIN agents) <=>
              (pc = "done" /\ outcome = Raise("ValueError", "Agent not found")
                 /\ calls = <<>>)
        /\ SkillOfRegisteredAgent =>
              /\ calls[1].via = "call_agent_skill"
              /\ calls[1].url = agents[args.action.agent].url
              /\ calls[1].message.skill = <<args.action.skill>>
              /\ calls[1].message.parameters = Merge([user_id |-> "hub"], args.params)
              /\ pc = "done" => outcome = send_to_agent(calls[1].response)

C12_Witness ==
    /\ SkillOfRegisteredAgent
    /\ args.action.agent = "tutor"
    /\ args.action.skill = "secret"
    /\ InList("secret", agents["tutor"].skill_exposure.hidden)
    /\ pc = "done"
    /\ outcome.kind = "return"

\* the reply of the latest call
Replied(success, error) ==
    /\ last_call.result.success = success
    /\ last_call.result.error = error

\* the sessions created from the link token
SessionsFrom(token) == {p \in verified : p[1] = token}

\* C13: a magic-link token is used at most once. No token has more than one
\* successful verification and more than one session created from it, and a
\* verification of a token that was verified before fails with "Invalid or
\* expired link" and creates no session.
C13_LinkSingleUse ==
    /\ [](\A token \in Tokens : Cardinality(SessionsFrom(token)) <= 1)
    /\ [][\A token \in Tokens :
            (VerifyMagicLink(token) /\ SessionsFrom(token) # {}) =>
                /\ last_call'.result =
                     [NoReply EXCEPT !.success = "False",
                                     !.error = "Invalid or expired link"]
                /\ sessions' = sessions
                /\ verified' = verified]_vars

\* a second verification of a used token has just been refused
C13_Witness ==
    /\ last_call.op = "verify_magic_link"
    /\ SessionsFrom(last_call.token) # {}
    /\ Replied("False", "Invalid or expired link")
    /\ Cardinality(DOMAIN sessions) = 1

\* C14: verifying a pending link whose expiry time has passed fails with
\* "Link has expired", deletes that pending link and creates no session;
\* verifying an unknown token fails with "Invalid or expired link" and changes
\* neither the pending links nor the sessions.
C14_ExpiredOrUnknownLink ==
    [][\A token \in Tokens : VerifyMagicLink(token) =>
          /\ (token \in DOMAIN pending_links /\ now > pending_links[token].expires) =>
                /\ last_call'.result =
                     [NoReply EXCEPT !.success = "False", !.error = "Link has expired"]
                /\ DOMAIN pending_links' = DOMAIN pending_links \ {token}
                /\ \A t \in DOMAIN pending_links' : pending_links'[t] = pending_links[t]
                /\ sessions' = sessions
          /\ token \notin DOMAIN pending_links =>
                /\ last_call'.result =
                     [NoReply EXCEPT !.success = "False",
                                     !.error = "Invalid or expired link"]
                /\ pending_links' = pending_links
                /\ sessions' = sessions]_vars

\* an expired link has just been refused and deleted, another link is kept
C14_Witness ==
    /\ last_call.op = "verify_magic_link"
    /\ Replied("False", "Link has expired")
    /\ last_call.token \notin DOMAIN pending_links
    /\ pending_links # EmptyDict
    /\ sessions = EmptyDict

\* a domain restriction is configured and the email does not end with
\* "@<domain>"
OutsideDomain(email) ==
    /\ auth_config.email_domain # "None"
    /\ ~(Len(email) >= 2 /\ email[Len(email)] = auth_config.email_domain)

\* C15: send_magic_link fails with "Email must be from <domain>" and stores
\* nothing when a domain restriction is configured and the email does not end
\* with "@<domain>"; otherwise it succeeds and stores exactly one new pending
\* link, for that email, under the token it returns. With the domain
\* virginia.edu, bob@other.edu is refused and the link of bob@virginia.edu
\* verifies to the user id "bob".
C15_DomainRestriction ==
    /\ [][\A email \in Emails : SendMagicLink(email) =>
            IF OutsideDomain(email)
            THEN /\ last_call'.result =
                      [NoReply EXCEPT !.success = "False",
                                      !.error = "Email must be from",
                                      !.detail = auth_config.email_domain]
                 /\ pending_links' = pending_links
            ELSE /\ last_call'.result.success = "True"
                 /\ last_call'.result.token \notin DOMAIN pending_links
                 /\ DOMAIN pending_links' =
                       DOMAIN pending_links \cup {last_call'.result.token}
                 /\ pending_links'[last_call'.result.token].email = email
                 /\ \A t \in DOMAIN pending_links :
                       pending_links'[t] = pending_links[t]]_vars
    /\ [](auth_config.email_domain = "virginia.edu" =>
            /\ (last_call.op = "send_magic_link"
                  /\ last_call.email = <<"bob", "other.edu">>)
                 => last_call.result.success = "False"
            /\ (last_call.op = "send_magic_link"
                  /\ last_call.email = <<"bob", "virginia.edu">>)
                 => last_call.result.success = "True"
            /\ (last_call.op = "verify_magic_link"
                  /\ last_call.result.success = "True")
                 => /\ last_call.result.email = <<"bob", "virginia.edu">>
                    /\ last_call.result.user_id = "bob"
                    /\ sessions[last_call.result.token].user_id = "bob")

\* under the virginia.edu restriction bob@other.edu has just been refused,
\* after the link of bob@virginia.edu was verified to "bob"
C15_Witness ==
    /\ auth_config.email_domain = "virginia.edu"
    /\ last_call.op = "send_magic_link"
    /\ last_call.email = <<"bob", "other.edu">>
    /\ Replied("False", "Email must be from")
    /\ \E t \in DOMAIN sessions :
          sessions[t].user_id = "bob" /\ sessions[t].email = <<"bob", "virginia.edu">>

\* session tokens that were issued at some time
IssuedSessions == {p[2] : p \in verified}

\* C16: validate_session returns None for an unknown token and changes no
\* store; for a session whose expiry time has passed it returns None and
\* removes that session, and that session only, in the same call. A session
\* token that has left the store never returns to it, so every later
\* validation of it returns None as well.
C16_ValidateUnknownOrExpired ==
    [][/\ \A session_token \in Tokens : ValidateSession(session_token) =>
            /\ session_token \notin DOMAIN sessions =>
                  /\ last_call'.result = NoReply
                  /\ sessions' = sessions
                  /\ pending_links' = pending_links
            /\ (session_token \in DOMAIN sessions
                  /\ now > sessions[session_token].expires) =>
                  /\ last_call'.result = NoReply
                  /\ DOMAIN sessions' = DOMAIN sessions \ {session_token}
                  /\ \A t \in DOMAIN sessions' : sessions'[t] = sessions[t]
       /\ \A session_token \in IssuedSessions :
            session_token \notin DOMAIN sessions =>
                session_token \notin DOMAIN sessions']_vars

\* an issued session has expired and a validation of it has returned None,
\* while a younger session is still in the store
C16_Witness ==
    /\ last_call.op = "validate_session"
    /\ last_call.result = NoReply
    /\ last_call.token \in IssuedSessions
    /\ last_call.token \notin DOMAIN sessions
    /\ \E p \in verified : p[2] = last_call.token /\ p[1] \notin DOMAIN pending_links
    /\ sessions # EmptyDict
    /\ now > auth_config.session_duration_hours * MinutesPerHour

\* C17: invalidate_session returns True and removes the session when the
\* token is in the store, returns False and changes nothing when it is not;
\* either way the token is absent afterwards and stays absent, and every
\* other session and every pending link is as before.
C17_InvalidateIdempotentLocal ==
    [][/\ \A session_token \in Tokens : InvalidateSession(session_token) =>
            /\ last_call'.result.success =
                  (IF session_token \in DOMAIN sessions THEN "True" ELSE "False")
            /\ session_token \notin DOMAIN sessions => sessions' = sessions
            /\ DOMAIN sessions' = DOMAIN sessions \ {session_token}
            /\ \A t \in DOMAIN sessions' : sessions'[t] = sessions[t]
            /\ pending_links' = pending_links
       /\ \A t \in 1..minted : t \notin DOMAIN sessions => t \notin DOMAIN sessions'
      ]_vars

\* a session was invalidated, a second invalidation of it has returned False,
\* and another session is still in the store
C17_Witness ==
    /\ last_call.op = "invalidate_session"
    /\ last_call.result.success = "False"
    /\ last_call.token \in IssuedSessions
    /\ \E t \in DOMAIN sessions : ~(now > sessions[t].expires)
    /\ now <= auth_config.session_duration_hours * MinutesPerHour

\* C18: a session in the store keeps the user id, email and expiry it was
\* issued with. A session enters the store only through a successful
\* verify_magic_link, under a token minted by that call and with the user id,
\* email and expiry that call returns; from then on no operation of the
\* manager changes it, it can only leave the store, and its token never
\* enters again.
C18_SessionFixedAtIssuance ==
    [][/\ \A t \in (DOMAIN sessions) \cap (DOMAIN sessions') :
             sessions'[t] = sessions[t]
       /\ \A t \in (DOMAIN sessions') \ (DOMAIN sessions) :
             /\ t = minted + 1
             /\ minted' = t
             /\ \E token \in DOMAIN pending_links :
                   /\ VerifyMagicLink(token)
                   /\ sessions'[t].email = pending_links[token].email
             /\ last_call'.result.success = "True"
             /\ last_call'.result.token = t
             /\ last_call'.result.user_id = sessions'[t].user_id
             /\ last_call'.result.email = sessions'[t].email
             /\ last_call'.result.expires = sessions'[t].expires
             /\ sessions'[t].expires =
                   now + auth_config.session_duration_hours * MinutesPerHour
       /\ minted' >= minted
      ]_vars

\* two sessions of different issue times are in the store, and the latest
\* call was a validation, a clean-up or a send
C18_Witness ==
    /\ Cardinality(DOMAIN sessions) = 2
    /\ \E t, u \in DOMAIN sessions : sessions[t].expires < sessions[u].expires
    /\ now > 0
    /\ last_call.op \in {"validate_session", "cleanup_expired", "send_magic_link"}

\* C19 (as claimed): under a hub that configures an email domain, the user id
\* of every session is derived from its email alone: the local part when the
\* email ends with "@<configured domain>", the 12-digit hash of the email
\* otherwise.
C19_UserIdFromConfiguredDomain ==
    auth_config.email_domain # "None" =>
        \A t \in DOMAIN sessions :
            sessions[t].user_id =
                IF EndsWithAt(sessions[t].email, auth_config.email_domain)
                THEN sessions[t].email[1]
                ELSE sha256_hex12(sessions[t].email)

\* C20: has_consented(u) returns True for every user when the policy does
\* not require consent; when it does, whatever record_consent and
\* revoke_consent calls came before, it returns True exactly when the store
\* holds a record for u whose revoked flag is false. It changes no record.
C20_HasConsented ==
    [][\A user_id \in Users : HasConsented(user_id) =>
          /\ last_call'.result.success \in {"True", "False"}
          /\ ~consent_config.required => last_call'.result.success = "True"
          /\ consent_config.required =>
                ((last_call'.result.success = "True") <=>
                    (user_id \in DOMAIN consents /\ ~consents[user_id].revoked))
          /\ consents' = consents]_vars

\* consent is required, the user consented and then revoked, and
\* has_consented has just answered False for them
C20_Witness ==
    /\ consent_config.required
    /\ last_call.op = "has_consented"
    /\ last_call.result.success = "False"
    /\ last_call.user_id \in DOMAIN consents
    /\ consents[last_call.user_id].revoked
    /\ consents[last_call.user_id].revoked_at >= consents[last_call.user_id].timestamp

\* C21: record_consent(u) always succeeds and leaves a fresh record for u,
\* whether u had no record, an active one or a revoked one: revoked is false,
\* revoked_at is cleared, the timestamp is the time of this call and the
\* version is the current one; the records of all other users are unchanged.
C21_RecordConsentUpserts ==
    [][\A user_id \in Users : StoreConsent(user_id) =>
          /\ last_call'.result.success = "True"
          /\ last_call'.result.user_id = user_id
          /\ last_call'.result.timestamp = now
          /\ DOMAIN consents' = DOMAIN consents \cup {user_id}
          /\ consents'[user_id].user_id = user_id
          /\ consents'[user_id].revoked = FALSE
          /\ consents'[user_id].revoked_at = -1
          /\ consents'[user_id].timestamp = now
          /\ consents'[user_id].consent_version = "1.0"
          /\ \A u \in DOMAIN consents : u # user_id => consents'[u] = consents[u]
      ]_vars

\* a user has just consented, after time has passed, while the other user
\* holds a record revoked earlier
C21_Witness ==
    /\ last_call.op = "record_consent"
    /\ last_call.result.timestamp = now
    /\ now > 0
    /\ consents[last_call.user_id].timestamp = now
    /\ ~consents[last_call.user_id].revoked
    /\ \E u \in DOMAIN consents :
          /\ u # last_call.user_id
          /\ consents[u].revoked
          /\ consents[u].revoked_at < now

\* what revoke_consent does to the store and what it replies, apart from
\* what has_consented says around a failed call
RevokeOutcome(user_id) ==
    /\ ~consent_config.revocable =>
          /\ last_call'.result =
                [NoReply EXCEPT !.success = "False",
                     !.error = "Consent cannot be revoked for this hub"]
          /\ consents' = consents
    /\ (consent_config.revocable /\ user_id \notin DOMAIN consents) =>
          /\ last_call'.result =
                [NoReply EXCEPT !.success = "False",
                     !.error = "No consent record found"]
          /\ consents' = consents
    /\ (consent_config.revocable /\ user_id \in DOMAIN consents) =>
          /\ last_call'.result.success = "True"
          /\ DOMAIN consents' = DOMAIN consents
          /\ consents'[user_id].revoked = TRUE
          /\ consents'[user_id].revoked_at = now
          /\ consents'[user_id].timestamp = consents[user_id].timestamp
          /\ \A u \in DOMAIN consents : u # user_id => consents'[u] = consents[u]

\* C22 (as claimed): revoke_consent(u) fails with "Consent cannot be revoked
\* for this hub" when the policy disallows revocation and with "No consent
\* record found" when u has no record, the store unchanged in both cases, and
\* otherwise sets revoked and stamps revoked_at on u's record only; for a user
\* with no record has_consented(u) is false before and after the call.
C22_RevokeConsentNoRecordNotConsented ==
    [][\A user_id \in Users : RevokeConsent(user_id) =>
          /\ RevokeOutcome(user_id)
          /\ user_id \notin DOMAIN consents =>
                /\ ~has_consented(consent_config, consents, user_id)
                /\ ~has_consented(consent_config, consents', user_id)
      ]_vars

\* C22 (amended): as claimed, except that for a user with no record
\* has_consented(u) is false before and after the failed call only under a
\* policy that requires consent; under a policy that does not, it is true
\* before and after.
C22_RevokeConsent ==
    [][\A user_id \in Users : RevokeConsent(user_id) =>
          /\ RevokeOutcome(user_id)
          /\ user_id \notin DOMAIN consents =>
                /\ has_consented(consent_config, consents, user_id)
                      = ~consent_config.required
                /\ has_consented(consent_config, consents', user_id)
                      = ~consent_config.required
      ]_vars

\* consent is required and revocable, a user without a record has just been
\* refused a revocation, and the other user's record is revoked
C22_Witness ==
    /\ consent_config.required
    /\ consent_config.revocable
    /\ last_call.op = "revoke_consent"
    /\ last_call.result.error = "No consent record found"
    /\ last_call.user_id \notin DOMAIN consents
    /\ \E u \in DOMAIN consents : consents[u].revoked /\ consents[u].revoked_at >= 0

\* the ledger holds a record for the user that is not revoked
ActiveRecord(user_id) ==
    /\ user_id \in DOMAIN consents
    /\ ~consents[user_id].revoked

\* C23: BaseHub.record_consent(u) writes the consent record first and runs
\* on_user_consent(u) afterwards, once per call: when the hook starts the
\* ledger holds an active record for u and no hook has run yet, the hook
\* leaves the ledger as it is whether it returns or raises, and when the call
\* is over exactly one on_user_consent(u) has run and the record is there.
C23_LedgerBeforeHook ==
    /\ []((op = "record_consent" /\ pc = "consent_hook") =>
             /\ hooks = <<>>
             /\ ActiveRecord(args.user_id))
    /\ []((op = "record_consent" /\ pc = "done") =>
             /\ Len(hooks) = 1
             /\ hooks[1].name = "on_user_consent"
             /\ hooks[1].user_id = args.user_id
             /\ ActiveRecord(args.user_id))
    /\ [][\A consent_hook \in HookBehaviours : ConsentHook(consent_hook) =>
             /\ ActiveRecord(args.user_id)
             /\ consents' = consents]_vars

\* the hook has raised out of record_consent and the record is in the ledger
C23_Witness ==
    /\ op = "record_consent"
    /\ Raised("HookError")
    /\ hooks[1].raised
    /\ ActiveRecord(args.user_id)

\* get_hub_card has returned a card
CardReturned == op = "get_hub_card" /\ outcome.kind = "return"

\* the card lists every registered agent once, each with its exposed list,
\* and the loaded action list in full
CardListsAgentsAndActions ==
    /\ \A name \in DOMAIN agents :
          Cardinality({i \in DOMAIN outcome.value.agents :
                          outcome.value.agents[i].name = name}) = 1
    /\ \A i \in DOMAIN outcome.value.agents :
          /\ outcome.value.agents[i].name \in DOMAIN agents
          /\ outcome.value.agents[i].exposed_skills =
                agents[outcome.value.agents[i].name].skill_exposure.exposed
    /\ Len(outcome.value.actions) = Len(actions)
    /\ \A i \in 1..Len(actions) :
          /\ outcome.value.actions[i].id = actions[i].id
          /\ outcome.value.actions[i].agent = actions[i].agent
          /\ outcome.value.actions[i].skill = actions[i].skill

\* C25 (as claimed): the card lists every registered agent once with its
\* exposed list and the full action list, and no skill name that is in an
\* agent's hidden or internal list appears in that agent's entry.
C25_CardHidesHiddenAndInternal ==
    CardReturned =>
        /\ CardListsAgentsAndActions
        /\ \A i \in DOMAIN outcome.value.agents :
              LET exposure == agents[outcome.value.agents[i].name].skill_exposure
              IN  \A k \in 1..Len(outcome.value.agents[i].exposed_skills) :
                     /\ ~InList(outcome.value.agents[i].exposed_skills[k],
                                exposure.hidden)
                     /\ ~InList(outcome.value.agents[i].exposed_skills[k],
                                exposure.internal)

\* C25 (amended): the card lists every registered agent once with its exposed
\* list and the full action list; a skill name of an agent's hidden or
\* internal list appears in that agent's entry only if the agent's exposed
\* list names it too.
C25_CardListsExposedOnly ==
    CardReturned =>
        /\ CardListsAgentsAndActions
        /\ \A i \in DOMAIN outcome.value.agents :
              LET exposure == agents[outcome.value.agents[i].name].skill_exposure
              IN  \A skill_id \in SetOf(exposure.hidden) \cup SetOf(exposure.internal) :
                     InList(skill_id, outcome.value.agents[i].exposed_skills)
                        => InList(skill_id, exposure.exposed)

\* the card of a hub with two agents, one of them with hidden and internal
\* skills, has been returned
C25_Witness ==
    /\ CardReturned
    /\ Len(outcome.value.agents) = 2
    /\ Len(outcome.value.actions) > 0
    /\ \E name \in DOMAIN agents :
          /\ agents[name].skill_exposure.internal # <<>>
          /\ agents[name].skill_exposure.exposed # <<>>

\* C26: a hub starts uninitialized, with no config, no agent and no action,
\* and health_check reports not_initialized; once initialized it has exactly
\* one AgentConnection per registered agent name, with the exposure declared
\* for that agent or, when none is declared, an empty exposure under which no
\* skill is callable; the action list and the config are loaded, and
\* health_check reports healthy.
C26_InitializeLoadsHub ==
    /\ [](~initialized =>
             /\ hub_config = NoConfig
             /\ agents = EmptyDict
             /\ actions = <<>>)
    /\ [](initialized =>
             /\ hub_config = hub.config
             /\ DOMAIN agents = DOMAIN hub.agent_urls
             /\ \A name \in DOMAIN agents :
                   /\ agents[name].name = name
                   /\ agents[name].url = hub.agent_urls[name]
                   /\ name \in DOMAIN hub.skill_exposures =>
                         agents[name].skill_exposure = hub.skill_exposures[name]
                   /\ name \notin DOMAIN hub.skill_exposures =>
                         /\ agents[name].skill_exposure = SkillExposure(<<>>, <<>>, <<>>)
                         /\ \A skill_id \in CalledSkills :
                               /\ ~is_user_callable(agents[name].skill_exposure, skill_id)
                               /\ ~is_hub_callable(agents[name].skill_exposure, skill_id)
             /\ actions = hub.ui_actions)
    /\ [][HealthCheck =>
             /\ ~initialized => outcome'.value.status = "not_initialized"
             /\ initialized =>
                   /\ outcome'.value.status = "healthy"
                   /\ outcome'.value.actions_count = Len(hub.ui_actions)
                   /\ DOMAIN outcome'.value.agents = DOMAIN hub.agent_urls]_vars

\* health_check has reported healthy on a hub one of whose agents has no
\* declared exposure
C26_Witness ==
    /\ initialized
    /\ op = "health_check"
    /\ outcome.value.status = "healthy"
    /\ \E name \in DOMAIN agents : name \notin DOMAIN hub.skill_exposures

\* C27: within one handle_action request the steps come in a fixed order:
\* on_action_start is invoked, first of the hooks, before the request has made
\* any network call; a route call is made only once every earlier call, the
\* precondition call, has been answered; on_action_complete is invoked last,
\* once the route call has been answered, and no request returns a routed
\* result without it; the result it is given is the one handle_action returns.
C27_HandleActionOrder ==
    op = "handle_action" =>
        /\ calls # <<>> =>
              /\ hooks # <<>>
              /\ hooks[1].name = "on_action_start"
              /\ ~hooks[1].raised
              /\ hooks[1].calls_made = 0
        /\ \A i \in 1..Len(hooks) : hooks[i].name = "on_action_start" => i = 1
        /\ \A i \in 1..Len(calls) :
              calls[i].via = "route_action" =>
                 /\ i = Len(calls)
                 /\ \A j \in 1..(i - 1) :
                       /\ calls[j].via = "check_precondition"
                       /\ calls[j].response # NoResponse
                 /\ (/\ has_precondition(args.action)
                     /\ precondition_agent(args.action.precondition) \in DOMAIN agents)
                       => i = 2
        /\ \A i \in 1..Len(hooks) :
              hooks[i].name = "on_action_complete" =>
                 /\ i = Len(hooks)
                 /\ i = 2
                 /\ calls # <<>>
                 /\ calls[Len(calls)].via = "route_action"
                 /\ calls[Len(calls)].response # NoResponse
                 /\ hooks[i].calls_made = Len(calls)
                 /\ hooks[i].calls_answered = Len(calls)
                 /\ pc = "done"
                 /\ outcome.kind = "return" => outcome.value = hooks[i].argument
                 /\ outcome.kind = "raise" => hooks[i].raised
        /\ (/\ pc = "done"
            /\ outcome.kind = "return"
            /\ calls # <<>>
            /\ calls[Len(calls)].via = "route_action")
              => /\ Len(hooks) = 2
                 /\ hooks[2].name = "on_action_complete"

\* handle_action has returned an agent's payload after a precondition call
\* and a route call, and on_action_complete was given that payload
C27_Witness ==
    /\ op = "handle_action"
    /\ pc = "done"
    /\ outcome.kind = "return"
    /\ Len(calls) = 2
    /\ Len(hooks) = 2
    /\ hooks[2].argument = outcome.value
    /\ outcome.value # NoObject

\* the precondition agent has answered with an object that has a has_pending
\* field
HasPendingAnswered ==
    /\ op \in {"check_precondition", "handle_action"}
    /\ calls # <<>>
    /\ calls[1].via = "check_precondition"
    /\ calls[1].response # NoResponse
    /\ send_to_agent(calls[1].response).kind = "return"
    /\ "has_pending" \in DOMAIN send_to_agent(calls[1].response).value.fields

\* what check_precondition returned: its outcome when called directly, the
\* precondition_result of handle_action otherwise
CheckReturned ==
    IF op = "check_precondition" THEN outcome.value ELSE precondition_result

\* C28: when the precondition agent's answer has a has_pending field,
\* check_precondition returns satisfied equal to that field, with
\* action_required "generate_worksheet" when the field is false and None when
\* it is true.
C28_HasPendingInterpreted ==
    HasPendingAnswered =>
        LET has_pending == send_to_agent(calls[1].response).value.fields["has_pending"]
        IN  /\ op = "check_precondition" => outcome.kind = "return"
            /\ DOMAIN CheckReturned.fields = {"satisfied", "message", "action_required"}
            /\ CheckReturned.fields["satisfied"] = has_pending
            /\ has_pending = "False" =>
                  CheckReturned.fields["action_required"] = "generate_worksheet"
            /\ has_pending = "True" =>
                  CheckReturned.fields["action_required"] = "None"

\* check_precondition has returned for an answer with has_pending false
C28_Witness ==
    /\ HasPendingAnswered
    /\ op = "check_precondition"
    /\ send_to_agent(calls[1].response).value.fields["has_pending"] = "False"
    /\ outcome.value.fields["action_required"] = "generate_worksheet"

\* check_precondition has returned for an answer with has_pending true
C28_WitnessPending ==
    /\ HasPendingAnswered
    /\ send_to_agent(calls[1].response).value.fields["has_pending"] = "True"
    /\ CheckReturned.fields["satisfied"] = "True"

\* the agent's answer to the send of a route_action or call_agent_skill call
\* was delivered and parsed, and it has an error member
ErrorAnswered ==
    /\ op \in {"route_action", "call_agent_skill"}
    /\ calls # <<>>
    /\ calls[Len(calls)].via \in {"route_action", "call_agent_skill"}
    /\ calls[Len(calls)].response.status = "ok"
    /\ calls[Len(calls)].response.hasError

\* C29 (as claimed): whenever a delivered agent response has an error member,
\* the router call fails with the agent error and returns no result, whatever
\* other members the response has.
C29_ErrorIndicatorFails ==
    ErrorAnswered =>
        /\ pc = "done"
        /\ outcome = Raise("Exception", "Agent error")

\* the agent's answer to the send of a route_action or call_agent_skill call
\* was delivered and parsed
RouterAnswered ==
    /\ op \in {"route_action", "call_agent_skill"}
    /\ calls # <<>>
    /\ calls[Len(calls)].response.status = "ok"

\* the parts of the first artifact of a result that has a non-empty artifacts
\* list (none otherwise)
FirstArtifactParts(result) ==
    IF result.hasArtifacts /\ result.artifacts # <<>> /\ result.artifacts[1].hasParts
    THEN result.artifacts[1].parts
    ELSE <<>>

\* C30: the router returns the data of the first part tagged data of the
\* first artifact of the response's result; a result with no artifacts
\* member, with an empty artifacts list or with no data part in its first
\* artifact is returned verbatim, whatever later artifacts hold; a response
\* with neither result nor error is returned verbatim.
C30_ResultUnwrapped ==
    RouterAnswered =>
        LET response == calls[Len(calls)].response
            parts == FirstArtifactParts(response.result)
        IN  /\ response.hasResult =>
                  /\ \A i \in 1..Len(parts) :
                        (/\ parts[i].kind = "data"
                         /\ parts[i].hasData
                         /\ \A j \in 1..(i - 1) : parts[j].kind # "data")
                           => outcome = Return(Flat(parts[i].data))
                  /\ (\A i \in 1..Len(parts) : parts[i].kind # "data")
                        => outcome = Return(response.result)
            /\ (~response.hasResult /\ ~response.hasError)
                  => outcome = Return(response.rest)

\* a result whose first artifact has no data part and whose second has one
\* was returned verbatim
C30_Witness ==
    /\ RouterAnswered
    /\ calls[Len(calls)].response.hasResult
    /\ Len(calls[Len(calls)].response.result.artifacts) = 2
    /\ \A i \in 1..Len(FirstArtifactParts(calls[Len(calls)].response.result)) :
          FirstArtifactParts(calls[Len(calls)].response.result)[i].kind # "data"
    /\ outcome = Return(calls[Len(calls)].response.result)

\* the data of the second part, the first one tagged data, of a first
\* artifact was returned
C30_WitnessData ==
    /\ RouterAnswered
    /\ Len(FirstArtifactParts(calls[Len(calls)].response.result)) = 3
    /\ outcome = Return(Flat(
          FirstArtifactParts(calls[Len(calls)].response.result)[2].data))

\* a response with neither result nor error was returned verbatim
C30_WitnessBare ==
    /\ RouterAnswered
    /\ ~calls[Len(calls)].response.hasResult
    /\ ~calls[Len(calls)].response.hasError
    /\ outcome = Return(calls[Len(calls)].response.rest)
    /\ outcome.value # NoObject

\* C24: a request that enters by execute_action gets to handle_action only if,
\* at that step, its session token is in the session store and unexpired and,
\* when the hub's config requires consent, has_consented is true for the
\* session's user; handle_action is given the user id stored in that session,
\* whatever user id the request body names.
C24_BoundaryGate ==
    [][\A session_token \in Tokens \cup {NoToken}, action_id \in BoundaryActionIds,
          params \in BoundaryParams, start_hook \in HookBehaviours :
          (/\ op = "none"
           /\ args' # NoArgs
           /\ ExecuteAction(session_token, action_id, params, start_hook))
             => /\ initialized
                /\ session_token \in DOMAIN sessions
                /\ ~expired(sessions[session_token])
                /\ hub_config.consent_required =>
                      has_consented(consent_config, consents,
                                    sessions[session_token].user_id)
                /\ args'.user_id = sessions[session_token].user_id
                /\ args'.action_id = action_id
                /\ args'.params = params
                /\ sessions' = sessions]_vars

\* a request whose body names user u2 has been sent on to an agent for the
\* session's user bob, on a hub that requires consent
C24_Witness ==
    /\ op = "execute_action"
    /\ hub_config.consent_required
    /\ "user_id" \in DOMAIN args.params
    /\ args.params["user_id"] = "u2"
    /\ args.user_id = "bob"
    /\ calls # <<>>

\* a request with a valid session was refused for want of consent
C24_WitnessRefused ==
    /\ op = "execute_action"
    /\ outcome = HTTPException("403", "Consent required before using this hub")
    /\ sessions # EmptyDict

\* the tokens of a store whose record's expiry time has passed
Lapsed(store) == {t \in DOMAIN store : now > store[t].expires}

\* C31: cleanup_expired removes the pending links and the sessions whose
\* expiry time has passed, all of them and no other. Each operation tests and
\* deletes in one step: whatever the interleaving, a record leaves a store
\* only if its expiry time has passed, or by the invalidate_session of that
\* session, or by the successful verify_magic_link of that link, and a record
\* that stays is unchanged; validate_session, verify_magic_link and
\* invalidate_session of a token that is no longer in the store give their
\* ordinary negative answer and change no store.
C31_CleanupExactAndAtomic ==
    [][/\ (last_call'.op = "cleanup_expired" /\ CleanupExpired) =>
             /\ DOMAIN sessions' = DOMAIN sessions \ Lapsed(sessions)
             /\ DOMAIN pending_links' = DOMAIN pending_links \ Lapsed(pending_links)
             /\ last_call'.result = NoReply
       /\ \A t \in DOMAIN sessions :
             /\ t \in DOMAIN sessions' => sessions'[t] = sessions[t]
             /\ t \notin DOMAIN sessions' =>
                   \/ t \in Lapsed(sessions)
                   \/ /\ last_call'.op = "invalidate_session"
                      /\ last_call'.token = t
       /\ \A t \in DOMAIN pending_links :
             /\ t \in DOMAIN pending_links' => pending_links'[t] = pending_links[t]
             /\ t \notin DOMAIN pending_links' =>
                   \/ t \in Lapsed(pending_links)
                   \/ /\ last_call'.op = "verify_magic_link"
                      /\ last_call'.token = t
                      /\ last_call'.result.success = "True"
       /\ \A t \in Tokens :
             /\ (t \notin DOMAIN sessions /\ ValidateSession(t)) =>
                   /\ last_call'.result = NoReply
                   /\ sessions' = sessions
             /\ (t \notin DOMAIN sessions /\ InvalidateSession(t)) =>
                   /\ last_call'.result = [NoReply EXCEPT !.success = "False"]
                   /\ sessions' = sessions
             /\ (t \notin DOMAIN pending_links /\ VerifyMagicLink(t)) =>
                   /\ last_call'.result =
                        [NoReply EXCEPT !.success = "False",
                                        !.error = "Invalid or expired link"]
                   /\ sessions' = sessions
                   /\ pending_links' = pending_links]_vars

\* cleanup_expired has run at a time when an issued session has left the
\* store and its time has passed, while a younger session is in the store
C31_Witness ==
    /\ last_call.op = "cleanup_expired"
    /\ \E p \in verified :
          /\ p[2] \notin DOMAIN sessions
          /\ now > auth_config.session_duration_hours * MinutesPerHour
    /\ \E t \in DOMAIN sessions : now <= sessions[t].expires

\* every record of the two stores has the provenance the login flow gives it
LoginProvenance ==
    /\ \A t \in DOMAIN pending_links :
          validate_email(auth_config, pending_links[t].email)
    /\ \A t \in DOMAIN sessions :
          /\ \E p \in verified :
                /\ p[2] = t
                /\ p[1] \notin DOMAIN pending_links
                /\ p[1] \notin DOMAIN sessions
          /\ validate_email(auth_config, sessions[t].email)
          /\ auth_config.email_domain # "None" =>
                sessions[t].email[Len(sessions[t].email)] = auth_config.email_domain
          /\ sessions[t].user_id = email_to_user_id(sessions[t].email)

\* a record enters a store only by the login flow: a link by a successful
\* send_magic_link of its email, a session by a successful verify_magic_link
\* of a pending link, whose email it takes
LoginSteps ==
    /\ \A t \in (DOMAIN pending_links') \ DOMAIN pending_links :
          /\ last_call'.op = "send_magic_link"
          /\ last_call'.result.success = "True"
          /\ last_call'.result.token = t
          /\ last_call'.email = pending_links'[t].email
          /\ validate_email(auth_config, last_call'.email)
    /\ \A t \in (DOMAIN sessions') \ DOMAIN sessions :
          /\ last_call'.op = "verify_magic_link"
          /\ last_call'.result.success = "True"
          /\ last_call'.result.token = t
          /\ last_call'.token \in DOMAIN pending_links
          /\ ~(now > pending_links[last_call'.token].expires)
          /\ last_call'.token \notin DOMAIN pending_links'
          /\ sessions'[t].email = pending_links[last_call'.token].email
          /\ <<last_call'.token, t>> \in verified'

\* C32: in every reachable state each session of the store was created by a
\* successful verify_magic_link of a pending link that is no longer pending,
\* its email passed send_magic_link's domain restriction, and its user id is
\* the derivation of that email; links and sessions enter the stores by no
\* other step than a successful send_magic_link and verify_magic_link.
C32_LoginProvenance == []LoginProvenance /\ [][LoginSteps]_vars

\* under a domain restriction, a session is in the store with a younger link
\* pending
C32_Witness ==
    /\ auth_config.email_domain # "None"
    /\ \E p \in verified : p[2] \in DOMAIN sessions
    /\ \E t \in DOMAIN pending_links : \A p \in verified : p[1] < t

\* C33: consent records are never deleted. record_consent(u) leaves a record
\* for u, and no step of any operation removes a record or changes whose it
\* is, so a record for u exists in every later state; whenever a record for u
\* exists, get_consent_info(u) is not None and export_consent_records has an
\* entry for u, revoked or not. The read operations has_consented,
\* get_consent_info, get_all_consented_users and export_consent_records leave
\* the consent map unchanged.
C33_ConsentRecordsKept ==
    [][/\ \A u \in DOMAIN consents :
             /\ u \in DOMAIN consents'
             /\ consents'[u].user_id = u
       /\ \A u \in Users :
             /\ (last_call'.op = "record_consent" /\ StoreConsent(u)) =>
                   u \in DOMAIN consents'
             /\ (last_call'.op = "get_consent_info" /\ GetConsentInfo(u)
                   /\ u \in DOMAIN consents) =>
                   /\ last_call'.result # NoReply
                   /\ Len(last_call'.result.records) = 1
                   /\ last_call'.result.records[1].user_id = u
                   /\ last_call'.result.records[1].revoked = consents[u].revoked
             /\ (last_call'.op \in {"has_consented", "get_consent_info"}
                   /\ (HasConsented(u) \/ GetConsentInfo(u))) =>
                   consents' = consents
       /\ (last_call'.op = "export_consent_records" /\ ExportConsentRecords) =>
             /\ Len(last_call'.result.records) = Cardinality(DOMAIN consents)
             /\ \A u \in DOMAIN consents :
                   \E i \in 1..Len(last_call'.result.records) :
                      /\ last_call'.result.records[i].user_id = u
                      /\ last_call'.result.records[i].revoked = consents[u].revoked
             /\ consents' = consents
       /\ (last_call'.op = "get_all_consented_users" /\ GetAllConsentedUsers) =>
             consents' = consents]_vars

\* export_consent_records has listed the record of a user who revoked, next
\* to the record of a user who did not
C33_Witness ==
    /\ last_call.op = "export_consent_records"
    /\ Len(last_call.result.records) = 2
    /\ \E i \in 1..2 : last_call.result.records[i].revoked
    /\ \E i \in 1..2 : ~last_call.result.records[i].revoked
    /\ \E u \in DOMAIN consents : consents[u].revoked

\* C34: once the hub is initialized it stays initialized, and no step of any
\* operation changes the registered agents, their addresses and exposures,
\* the action list, the hub's config or the managers' configs; of the hub's
\* shared state only the session, pending-link and consent maps change.
C34_RegistryReadOnly ==
    [][initialized =>
          /\ initialized'
          /\ agents' = agents
          /\ actions' = actions
          /\ hub_config' = hub_config
          /\ hub' = hub
          /\ auth_config' = auth_config
          /\ consent_config' = consent_config]_vars

\* the registry is as initialize built it while an agent call is in flight
\* and the session and consent maps have entries
C34_Witness ==
    /\ initialized
    /\ pc \in {"await_precondition", "await_route", "await_skill"}
    /\ sessions # EmptyDict
    /\ consents # EmptyDict
    /\ DOMAIN agents = DOMAIN hub.agent_urls
    /\ actions = hub.ui_actions

\* a handle_action request is under way and has not ended
HandleActionRunning == op = "handle_action" /\ pc # "done"

\* the handle_action request has ended, with a result or with an exception
HandleActionEnded ==
    /\ op = "handle_action"
    /\ pc = "done"
    /\ outcome.kind \in {"return", "raise"}

PassedThrough(response) ==
    /\ send_to_agent(response).kind = "return"
    /\ "has_pending" \notin DOMAIN send_to_agent(response).value.fields

\* the step sent a route call after the calls made so far
RouteCallAdded ==
    /\ Len(calls') = Len(calls) + 1
    /\ calls'[Len(calls')].via = "route_action"

\* C36: an answer of the precondition agent without a has_pending entry is
\* the precondition result as it is, and handle_action routes the action
\* only if that result has a satisfied entry that is truthy; without one it
\* answers precondition_failed and sends no route call.
C36_PassThroughNeedsSatisfied ==
    [][\A response \in Responses :
         (pc = "await_precondition" /\ PassedThrough(response)
            /\ PreconditionResponse(response)) =>
            LET result == send_to_agent(response).value IN
            /\ op = "check_precondition" => outcome' = Return(result)
            /\ op = "handle_action" =>
                 /\ precondition_result' = result
                 /\ RouteCallAdded =>
                      /\ "satisfied" \in DOMAIN result.fields
                      /\ Truthy(result.fields["satisfied"])
                 /\ "satisfied" \notin DOMAIN result.fields =>
                      /\ ~RouteCallAdded
                      /\ pc' = "done"
                      /\ outcome'.kind = "return"
                      /\ outcome'.value.fields["status"] = "precondition_failed"]_vars

\* a precondition answer with neither has_pending nor satisfied was passed
\* through and the request ended as precondition_failed without a route call
C36_Witness ==
    /\ op = "handle_action"
    /\ pc = "done"
    /\ Len(calls) = 1
    /\ calls[1].via = "check_precondition"
    /\ precondition_result = Flat([score |-> "7"])
    /\ outcome.kind = "return"
    /\ outcome.value.fields["status"] = "precondition_failed"

\* a passed-through answer with a truthy satisfied entry let the action be
\* routed
C36_WitnessRouted ==
    /\ op = "handle_action"
    /\ Len(calls) = 2
    /\ calls[2].via = "route_action"
    /\ precondition_result = Flat([satisfied |-> "True", message |-> "fine"])

\* C37 (as claimed): in the call check_precondition sends for a
\* handle_action request, the student_id entry of the parameter bag is the
\* user id handle_action was called with, whatever params the caller gave.
C37_CheckedForRequester ==
    op = "handle_action" =>
        \A i \in 1..Len(calls) :
            calls[i].via = "check_precondition" =>
                calls[i].message.parameters["student_id"] = args.user_id

\* how an agent's exposure classifies the skill a precondition names: the
\* lists hold plain skill ids, so a dotted skill name is in none of them
Classification(exposure, skill_name) ==
    IF Len(skill_name) # 1 THEN "unlisted"
    ELSE IF InList(skill_name[1], exposure.hidden) THEN "hidden"
    ELSE IF InList(skill_name[1], exposure.exposed) THEN "exposed"
    ELSE IF InList(skill_name[1], exposure.internal) THEN "internal"
    ELSE "unlisted"

\* the step sent the precondition call for the skill the reference names, to
\* the agent it names
PreconditionCallSent(precondition_skill) ==
    /\ pc' = "await_precondition"
    /\ Len(calls') = Len(calls) + 1
    /\ calls'[Len(calls')].via = "check_precondition"
    /\ calls'[Len(calls')].url = agents[precondition_agent(precondition_skill)].url
    /\ calls'[Len(calls')].message.skill = precondition_skill_name(precondition_skill)

\* C38: check_precondition sends the call for the referenced skill of a
\* registered agent whatever the agent's exposure says of that skill, called
\* directly or by handle_action; a PermissionError of a handle_action request
\* comes only from is_user_callable or is_hub_callable refusing the action's
\* own skill.
C38_PreconditionIgnoresExposure ==
    /\ [][\A precondition_skill \in PreconditionRefs, user_id \in Users,
            params \in ParamChoices :
            (op = "none" /\ precondition_agent(precondition_skill) \in DOMAIN agents
               /\ CheckPrecondition(precondition_skill, user_id, params)) =>
               PreconditionCallSent(precondition_skill)]_vars
    /\ [][\A action_id \in ActionIds, user_id \in Users, params \in ParamChoices :
            (op = "none" /\ initialized
               /\ handle_action_check(action_id, get_action(action_id)).kind # "raise"
               /\ has_precondition(get_action(action_id))
               /\ precondition_agent(get_action(action_id).precondition) \in DOMAIN agents
               /\ HandleAction(action_id, user_id, params, "ok")) =>
               PreconditionCallSent(get_action(action_id).precondition)]_vars
    /\ []((op = "handle_action" /\ pc = "done" /\ outcome.kind = "raise"
             /\ outcome.exc = "PermissionError") =>
            /\ args.action.agent \in DOMAIN agents
            /\ \/ ~is_user_callable(agents[args.action.agent].skill_exposure,
                                    args.action.skill)
               \/ ~is_hub_callable(agents[args.action.agent].skill_exposure,
                                   args.action.skill))

\* the classification of the skill of the first call, a precondition call
\* that is in flight, on the agent it was sent to
InFlightPreconditionClass(entry) ==
    IF /\ op = entry
       /\ pc = "await_precondition"
       /\ Len(calls) = 1
       /\ calls[1].via = "check_precondition"
       /\ precondition_agent(args.precondition_skill) \in DOMAIN agents
    THEN Classification(
             agents[precondition_agent(args.precondition_skill)].skill_exposure,
             calls[1].message.skill)
    ELSE "none"

\* a precondition call for a skill that is hidden on its agent is in flight
C38_Witness == InFlightPreconditionClass("check_precondition") = "hidden"

C38_WitnessExposed == InFlightPreconditionClass("check_precondition") = "exposed"

C38_WitnessInternal == InFlightPreconditionClass("handle_action") = "internal"

C38_WitnessUnlisted == InFlightPreconditionClass("handle_action") = "unlisted"

\* a request that entered by execute_action is suspended on an agent call
BoundaryRequestSuspended ==
    /\ op = "execute_action"
    /\ pc \in {"await_precondition", "await_route"}

\* the requesting user has no session left
SessionGone == \A t \in DOMAIN sessions : sessions[t].user_id # args.user_id

\* the requesting user's consent is revoked on a hub that requires consent
ConsentWithdrawn ==
    /\ hub_config.consent_required
    /\ args.user_id \in DOMAIN consents
    /\ consents[args.user_id].revoked

\* C39: session and consent are checked when the request enters the boundary
\* and not again.  While the request is suspended on an agent call, a step
\* that removes sessions or changes consents leaves the request as it is;
\* the steps that resume it call neither manager and change neither store;
\* and when the precondition answer is satisfied and the action's skill is
\* hub-callable, the route call is sent, whatever has become of the user's
\* session and consent.
C39_CheckedOnceAtEntry ==
    /\ [][(BoundaryRequestSuspended /\ (sessions' # sessions \/ consents' # consents))
            => UNCHANGED taskVars]_vars
    /\ [][(BoundaryRequestSuspended /\ pc' # pc)
            => UNCHANGED <<last_call, sessions, consents, pending_links>>]_vars
    /\ [][\A response \in BoundaryResponses :
            (op = "execute_action" /\ pc = "await_precondition"
               /\ PreconditionResponse(response)
               /\ precondition_outcome(send_to_agent(response)).kind = "return"
               /\ precondition_satisfied(
                      precondition_outcome(send_to_agent(response)).value)
               /\ route_action_check(args.action).kind # "raise")
            => RouteCallAdded]_vars

\* the precondition call of a boundary request has been answered and the
\* action routed although the user's session is gone and their consent is
\* revoked
C39_Witness ==
    /\ op = "execute_action"
    /\ pc = "await_route"
    /\ Len(calls) = 2
    /\ calls[1].via = "check_precondition"
    /\ calls[2].via = "route_action"
    /\ SessionGone
    /\ ConsentWithdrawn

\* the request went on to return the agent's result to a user without a
\* session
C39_WitnessAnswered ==
    /\ op = "execute_action"
    /\ pc = "done"
    /\ outcome.kind = "return"
    /\ Len(calls) = 2
    /\ calls[2].via = "route_action"
    /\ SessionGone

====
